---------------------------- MODULE Spec2Model ----------------------------
(***************************************************************************)
(* A model of the presence agent's local IPC layer:                        *)
(*                                                                         *)
(*   - the frame codec (src-tauri/src/rpc/codec.rs): RpcCodec::encode and  *)
(*     RpcCodec::decode over byte buffers, with serde_json's to_vec and    *)
(*     from_slice on a bounded family of JSON values;                      *)
(*   - the per-slot connection supervisor (src-tauri/src/rpc.rs):          *)
(*     Connection::new / Connection::run / Connection::authenticate under  *)
(*     tokio_retry's RetryIf, the watch channel holding the slot status    *)
(*     and the bounded mpsc queue of outbound commands;                    *)
(*   - the pool's broadcast (Rpc::send_all over Rpc::open_connections).    *)
(*                                                                         *)
(* Two specifications share the variables: SpecCodec drives the codec on   *)
(* every packet of Packets and every split of its frame, Spec drives the   *)
(* slots and the broadcasts.  Each action is one poll segment of a task:   *)
(* the code that runs between two await points.                            *)
(***************************************************************************)
EXTENDS Integers, Sequences, FiniteSets, TLC

VARIABLES
    \* ---- codec ----
    item,       \* the RpcPacket handed to encode
    dst,        \* the encoder's output buffer (BytesMut)
    encoded,    \* whether encode has run on item
    src,        \* the decoder's input buffer (BytesMut)
    fed,        \* how many bytes of the frame the transport has delivered
    results,    \* what each decode call returned, in call order
    \* ---- connection slots ----
    status,     \* slot -> the value of the slot's watch channel
    pc,         \* slot -> where the slot's supervisor task stands
    lastErr,    \* slot -> the error the last run attempt ended with ("none": none yet)
    queue,      \* slot -> the commands buffered in the slot's mpsc channel
    expected,   \* slot -> nonces in run's local map `expected`
    rx,         \* slot -> nonces in the shared map Connection.rx
    token,      \* slot -> the token the store "auth" holds for the slot
    nextNonce,  \* how many nonces (Ulid::new) have been drawn
    accepted,   \* slot -> nonces of the commands the queue accepted, in order
    written,    \* slot -> nonces of the command Frames written to the socket, in order
    \* ---- the pool's broadcast ----
    bc,         \* the send_all call in progress: its position and command
    found,      \* slot -> the status open_connections' filter returned on
    \* ---- authenticate's choice, on clock values ----
    stored,     \* the store's entry for the slot: NoToken or the token's expires_at
    now,        \* the clock (Timestamp::now()), in hours
    seen,       \* what the last authenticate call read: the entry and the two clock values
    did,        \* what the last authenticate call performed, in order
    ret,        \* how the last authenticate call returned ("idle": not called yet)
    \* ---- the shell's commands (connect, set_activity) ----
    rpcState,   \* the managed RpcState: 0 (None) or the pool it holds
    pools,      \* how many pools Rpc::new has built
    sup,        \* pool -> slot -> where the slot's supervisor task stands
    conn,       \* the connect call in progress
    shell,      \* the set_activity call in progress
    broadcasts, \* the commands handed to Rpc::send_all, in order
    \* ---- the artwork server (media/serve.rs) ----
    current_artwork, \* the register: NoArtwork or the record {bytes, mime, hash}
    request,    \* the path of the last GET /{hash}
    response,   \* the response to it
    public_url, \* the OnceCell: NoUrl or the tunnel's URL
    tunnel,     \* where the open_tunnel task stands
    callers,    \* caller -> where its public_url() call stands
    \* ---- the media adaptors (media/mac/media_remote.rs, media/win.rs) ----
    observation, \* what the platform delivered: a helper's line or a session's timeline
    snapshot,   \* what the adaptor made of it
    helper,     \* the macOS helper process: "running" or "exited"
    items,      \* what the subscription stream has yielded, "End" for its end
    \* ---- the dispatch loop of one connection, packet by packet (rpc.rs) ----
    loop_pc, \* where the dispatch loop of one connection stands
    loop_queue, \* the commands in the connection's channel
    loop_expected, \* the loop's map nonce -> responder (expected)
    loop_rx, \* the connection's map nonce -> receiver (Connection.rx)
    socket, \* the packets written to the pipe
    selected, \* what the last select! yielded and what came of it
    delivered,\* nonce -> the packets handed to its responder
    \* ---- the retry schedule of one slot (Connection::new) ----
    attempt, \* where the supervisor (RetryIf around run) of one slot stands
    current, \* the backoff strategy's next delay before the cap, in ms
    delays,\* the delays slept so far, each with whether the failed attempt had been Open
    \* ---- encode on bodies of any length (rpc/codec.rs) ----
    sized, \* the op and the length of the serialized body handed to encode
    emitted,\* what encode returned and wrote for it
    \* ---- media changes, get_media and set_activity together (commands/) ----
    known, \* the media the frontend received last (event payload or get_media's return)
    has_rpc, \* whether the managed state holds a pool
    command, \* where the set_activity command stands, and its media argument
    remote, \* the hashes PUT to the remote API
    activity \* the activity broadcast last

cvars == <<item, dst, encoded, src, fed, results>>
rvars == <<status, pc, lastErr, queue, expected, rx, token, nextNonce, accepted, written, bc, found>>
avars == <<stored, now, seen, did, ret>>
\* The variables outside the codec and the slots.
shvars == <<rpcState, pools, sup, conn, shell, broadcasts>>
svars == <<current_artwork, request, response, public_url, tunnel, callers>>
mvars == <<observation, snapshot, helper, items>>
lvars == <<loop_pc, loop_queue, loop_expected, loop_rx, socket, selected, delivered>>
bvars == <<attempt, current, delays>>
evars == <<sized, emitted>>
ovars == <<known, has_rpc, command, remote, activity>>
xvars == <<avars, shvars, svars, mvars, lvars, bvars, evars, ovars>>
\* What the actions of one part leave alone.
xAuth  == <<cvars, rvars, shvars, svars, mvars, lvars, bvars, evars, ovars>>
xShell == <<cvars, rvars, avars, svars, mvars, lvars, bvars, evars, ovars>>
xServe == <<cvars, rvars, avars, shvars, mvars, lvars, bvars, evars, ovars>>
xMedia == <<cvars, rvars, avars, shvars, svars, lvars, bvars, evars, ovars>>
xLoop == <<cvars, rvars, avars, shvars, svars, mvars, bvars, evars, ovars>>
xRetry == <<cvars, rvars, avars, shvars, svars, mvars, lvars, evars, ovars>>
xSize == <<cvars, rvars, avars, shvars, svars, mvars, lvars, bvars, ovars>>
\* The commands of commands/ act on the server's register as well.
xOrch == <<cvars, rvars, avars, shvars, mvars, lvars, bvars, evars>>
vars  == <<cvars, rvars, xvars>>

-----------------------------------------------------------------------------
(* Bounds of the model.                                                    *)

\* The transport delivers a frame in at most MaxChunks reads.
MaxChunks == 4

\* The pool's slots are 0..NumSlots-1 (Rpc::new builds ten; the model keeps
\* fewer, every slot running the same supervisor).
NumSlots == 2

\* The capacity of a slot's command channel (mpsc::channel(32) in the source,
\* scaled down so that a full channel is reached).
QueueCap == 2

\* Nonces are 1..MaxNonce: at most MaxNonce commands are ever created.
MaxNonce == 2

-----------------------------------------------------------------------------
(* JSON values (serde_json::Value) and their text.                         *)
(*                                                                         *)
(* A value is a tagged record.  Strings are sequences of bytes without     *)
(* quote, backslash or control characters (no escapes arise); numbers are  *)
(* naturals; an object is the sequence of its members in key order, as     *)
(* serde_json's Map (a BTreeMap) iterates them.                            *)

JNull     == [t |-> "null"]
JBool(b)  == [t |-> "bool", b |-> b]
JNum(n)   == [t |-> "num", n |-> n]
JStr(s)   == [t |-> "str", s |-> s]
JArr(a)   == [t |-> "arr", a |-> a]
JObj(m)   == [t |-> "obj", m |-> m]
Member(k, v) == [k |-> k, v |-> v]

\* ASCII codes of the characters the JSON text uses.
Ch == [lbrace |-> 123, rbrace |-> 125, lbrack |-> 91, rbrack |-> 93,
       quote |-> 34, colon |-> 58, comma |-> 44, backslash |-> 92,
       zero |-> 48, nine |-> 57, space |-> 32, tab |-> 9, lf |-> 10, cr |-> 13,
       a |-> 97, b |-> 98, v |-> 118, x |-> 120]

LitNull  == <<110, 117, 108, 108>>
LitTrue  == <<116, 114, 117, 101>>
LitFalse == <<102, 97, 108, 115, 101>>

RECURSIVE Digits(_)
Digits(n) == IF n < 10 THEN <<Ch.zero + n>>
             ELSE Digits(n \div 10) \o <<Ch.zero + (n % 10)>>

RECURSIVE ToVec(_), JoinElems(_), JoinMembers(_)
\* serde_json::to_vec: the compact text of a value.
ToVec(v) ==
    CASE v.t = "null" -> LitNull
      [] v.t = "bool" -> IF v.b THEN LitTrue ELSE LitFalse
      [] v.t = "num"  -> Digits(v.n)
      [] v.t = "str"  -> <<Ch.quote>> \o v.s \o <<Ch.quote>>
      [] v.t = "arr"  -> <<Ch.lbrack>> \o JoinElems(v.a) \o <<Ch.rbrack>>
      [] v.t = "obj"  -> <<Ch.lbrace>> \o JoinMembers(v.m) \o <<Ch.rbrace>>

JoinElems(a) ==
    IF a = <<>> THEN <<>>
    ELSE IF Len(a) = 1 THEN ToVec(a[1])
    ELSE ToVec(a[1]) \o <<Ch.comma>> \o JoinElems(Tail(a))

JoinMembers(m) ==
    IF m = <<>> THEN <<>>
    ELSE LET one == <<Ch.quote>> \o m[1].k \o <<Ch.quote, Ch.colon>> \o ToVec(m[1].v)
         IN  IF Len(m) = 1 THEN one
             ELSE one \o <<Ch.comma>> \o JoinMembers(Tail(m))

\* ---- serde_json::from_slice: a recursive-descent reader of the same grammar ----

IsWs(c)    == c \in {Ch.space, Ch.tab, Ch.lf, Ch.cr}
IsDigit(c) == c >= Ch.zero /\ c <= Ch.nine

RECURSIVE SkipWs(_, _)
SkipWs(b, i) == IF i <= Len(b) /\ IsWs(b[i]) THEN SkipWs(b, i + 1) ELSE i

ParseFail(i) == [ok |-> FALSE, v |-> JNull, i |-> i]
ParseOk(v, i) == [ok |-> TRUE, v |-> v, i |-> i]

\* The literal lit must stand at b[i..]; the value is v.
ParseLit(b, i, lit, v) ==
    IF i + Len(lit) - 1 <= Len(b) /\ SubSeq(b, i, i + Len(lit) - 1) = lit
    THEN ParseOk(v, i + Len(lit)) ELSE ParseFail(i)

RECURSIVE ParseDigits(_, _, _)
ParseDigits(b, i, acc) ==
    IF i <= Len(b) /\ IsDigit(b[i])
    THEN ParseDigits(b, i + 1, acc * 10 + (b[i] - Ch.zero))
    ELSE ParseOk(JNum(acc), i)

\* A number: a lone 0, or a digit 1-9 followed by digits.
ParseNum(b, i) ==
    IF b[i] = Ch.zero THEN ParseOk(JNum(0), i + 1) ELSE ParseDigits(b, i, 0)

\* The bytes of a string whose opening quote is at b[i-1]; fails on the end of
\* input, on a control character and on an escape.
RECURSIVE ParseChars(_, _, _)
ParseChars(b, i, acc) ==
    IF i > Len(b) THEN ParseFail(i)
    ELSE IF b[i] = Ch.quote THEN ParseOk(JStr(acc), i + 1)
    ELSE IF b[i] = Ch.backslash \/ b[i] < Ch.space THEN ParseFail(i)
    ELSE ParseChars(b, i + 1, Append(acc, b[i]))

RECURSIVE LexLess(_, _)
\* Byte-wise order of keys, the order of String in a BTreeMap.
LexLess(p, q) ==
    IF q = <<>> THEN FALSE
    ELSE IF p = <<>> THEN TRUE
    ELSE IF p[1] # q[1] THEN p[1] < q[1]
    ELSE LexLess(Tail(p), Tail(q))

RECURSIVE MapInsert(_, _, _)
\* Map::insert: a repeated key keeps its place and takes the new value.
MapInsert(m, k, v) ==
    IF m = <<>> THEN <<Member(k, v)>>
    ELSE IF m[1].k = k THEN <<Member(k, v)>> \o Tail(m)
    ELSE IF LexLess(k, m[1].k) THEN <<Member(k, v)>> \o m
    ELSE <<m[1]>> \o MapInsert(Tail(m), k, v)

RECURSIVE ParseValue(_, _), ParseElems(_, _, _), ParseMembers(_, _, _)
ParseValue(b, i0) ==
    LET i == SkipWs(b, i0) IN
    IF i > Len(b) THEN ParseFail(i)
    ELSE CASE b[i] = LitNull[1]  -> ParseLit(b, i, LitNull, JNull)
           [] b[i] = LitTrue[1]  -> ParseLit(b, i, LitTrue, JBool(TRUE))
           [] b[i] = LitFalse[1] -> ParseLit(b, i, LitFalse, JBool(FALSE))
           [] IsDigit(b[i])      -> ParseNum(b, i)
           [] b[i] = Ch.quote    -> ParseChars(b, i + 1, <<>>)
           [] b[i] = Ch.lbrack   ->
                LET j == SkipWs(b, i + 1) IN
                IF j <= Len(b) /\ b[j] = Ch.rbrack THEN ParseOk(JArr(<<>>), j + 1)
                ELSE ParseElems(b, j, <<>>)
           [] b[i] = Ch.lbrace   ->
                LET j == SkipWs(b, i + 1) IN
                IF j <= Len(b) /\ b[j] = Ch.rbrace THEN ParseOk(JObj(<<>>), j + 1)
                ELSE ParseMembers(b, j, <<>>)
           [] OTHER -> ParseFail(i)

\* The elements of an array from b[i] on, after acc.
ParseElems(b, i, acc) ==
    LET e == ParseValue(b, i)
        j == SkipWs(b, e.i)
    IN  IF ~e.ok \/ j > Len(b) THEN ParseFail(j)
        ELSE IF b[j] = Ch.comma THEN ParseElems(b, j + 1, Append(acc, e.v))
        ELSE IF b[j] = Ch.rbrack THEN ParseOk(JArr(Append(acc, e.v)), j + 1)
        ELSE ParseFail(j)

\* The members of an object from b[i] on, after acc.
ParseMembers(b, i0, acc) ==
    LET i == SkipWs(b, i0) IN
    IF i > Len(b) \/ b[i] # Ch.quote THEN ParseFail(i)
    ELSE
      LET k == ParseChars(b, i + 1, <<>>)
          c == SkipWs(b, k.i)
      IN  IF ~k.ok \/ c > Len(b) \/ b[c] # Ch.colon THEN ParseFail(c)
          ELSE
            LET e == ParseValue(b, c + 1)
                j == SkipWs(b, e.i)
                m == MapInsert(acc, k.v.s, e.v)
            IN  IF ~e.ok \/ j > Len(b) THEN ParseFail(j)
                ELSE IF b[j] = Ch.comma THEN ParseMembers(b, j + 1, m)
                ELSE IF b[j] = Ch.rbrace THEN ParseOk(JObj(m), j + 1)
                ELSE ParseFail(j)

\* serde_json::from_slice: one value, then nothing but white space.
FromSlice(b) ==
    LET r == ParseValue(b, 1) IN
    IF r.ok /\ SkipWs(b, r.i) > Len(b) THEN [ok |-> TRUE, v |-> r.v]
    ELSE [ok |-> FALSE, v |-> JNull]

-----------------------------------------------------------------------------
(* The frame codec.                                                        *)

Ops == {"Handshake", "Frame", "Close", "Ping", "Pong"}

\* `op as i32`: the discriminants of enum Op.
OpCode(op) ==
    CASE op = "Handshake" -> 0
      [] op = "Frame"     -> 1
      [] op = "Close"     -> 2
      [] op = "Ping"      -> 3
      [] op = "Pong"      -> 4

\* TryFrom<i32> for Op with the arms of Close and Ping exchanged.
OpFromI32_Swapped(v) ==
    CASE v = 0 -> "Handshake"
      [] v = 1 -> "Frame"
      [] v = 3 -> "Close"
      [] v = 2 -> "Ping"
      [] v = 4 -> "Pong"
      [] OTHER -> "none"

\* TryFrom<i32> for Op: "none" stands for Err("unexpected op code").
OpFromI32(v) ==
    CASE v = 0 -> "Handshake"
      [] v = 1 -> "Frame"
      [] v = 2 -> "Close"
      [] v = 3 -> "Ping"
      [] v = 4 -> "Pong"
      [] OTHER -> "none"

\* `len as i32`: a usize cast to i32 keeps the low 32 bits.
AsI32(n) == IF n <= 2147483647 THEN n ELSE n - 2147483647 - 2147483647 - 2

\* write_i32 with the byte order reversed (BigEndian).
I32LE_BigEndian(n) == << (n \div 16777216) % 256, (n \div 65536) % 256, (n \div 256) % 256, n % 256 >>

\* write_i32::<LittleEndian>: the four bytes of a two's-complement i32, low first.
I32LE(n) == << n % 256, (n \div 256) % 256, (n \div 65536) % 256, (n \div 16777216) % 256 >>

\* read_i32::<LittleEndian>: the i32 of four bytes, low first.
I32FromLE(b) ==
    b[1] + 256 * b[2] + 65536 * b[3]
      + 16777216 * (IF b[4] >= 128 THEN b[4] - 256 ELSE b[4])

RpcPacket(op, data) == [op |-> op, data |-> data]
NoPacket == RpcPacket("none", JNull)

\* RpcCodec::encode: the buffer after the call (the call itself returns Ok(()):
\* to_vec of a Value and writes into a BytesMut do not fail).
Encode(pkt, buf) ==
    LET body == ToVec(pkt.data) IN
    buf \o I32LE(OpCode(pkt.op)) \o I32LE(AsI32(Len(body))) \o body

DecodeResult(kind, pkt, rest) == [res |-> [k |-> kind, pkt |-> pkt], src |-> rest]

\* RpcCodec::decode on the buffer buf: the value returned and the buffer left.
\* Reading through src.reader() consumes what it reads: the two header words
\* as soon as eight bytes are there, and, when the body is not complete,
\* whatever part of it is there (read_exact copies what it can before it
\* reports UnexpectedEof).  A negative length makes `vec![0; len as usize]`
\* panic with a capacity overflow.
Decode(buf) ==
    IF Len(buf) < 8 THEN DecodeResult("None", NoPacket, buf)
    ELSE
      LET op   == I32FromLE(SubSeq(buf, 1, 4))
          len  == I32FromLE(SubSeq(buf, 5, 8))
          rest == SubSeq(buf, 9, Len(buf))
      IN  IF len < 0 THEN DecodeResult("Panic", NoPacket, rest)
          ELSE IF Len(rest) < len THEN DecodeResult("None", NoPacket, <<>>)
          ELSE
            LET body  == SubSeq(rest, 1, len)
                after == SubSeq(rest, len + 1, Len(rest))
                o     == OpFromI32(op)
                d     == FromSlice(body)
            IN  IF o = "none" \/ ~d.ok THEN DecodeResult("Err", NoPacket, after)
                ELSE DecodeResult("Some", RpcPacket(o, d.v), after)

\* ---- the packets and buffers the codec is driven on ----

KeyA == <<Ch.a>>
KeyB == <<Ch.b>>
KeyV == <<Ch.v>>
StrX == <<Ch.x>>

\* {"a":1,"b":"x"}
ExampleBody == JObj(<<Member(KeyA, JNum(1)), Member(KeyB, JStr(StrX))>>)

Bodies ==
    { ExampleBody,
      JNull,
      JNum(10),
      JObj(<<Member(KeyV, JNum(1))>>),
      JArr(<<JBool(TRUE), JStr(<<>>), JObj(<<>>)>>) }

Packets == { RpcPacket(op, d) : op \in Ops, d \in Bodies }

\* What the output buffer may hold before encode is called.
DstPrefixes == { <<>>, <<255>> }

\* The frame of item as the peer's transport delivers it.
Frame == Encode(item, <<>>)

InitCodecVars ==
    /\ item \in Packets
    /\ dst \in DstPrefixes
    /\ encoded = FALSE
    /\ src = <<>>
    /\ fed = 0
    /\ results = <<>>

\* Encoder::encode(item, dst).
EncodeItem ==
    /\ ~encoded
    /\ dst' = Encode(item, dst)
    /\ encoded' = TRUE
    /\ UNCHANGED <<item, src, fed, results>>
    /\ UNCHANGED <<rvars, xvars>>

\* The decoder stops being called once a call failed or panicked.
DecoderLive ==
    IF results = <<>> THEN TRUE ELSE results[Len(results)].k \in {"None", "Some"}

\* The transport appends the next n bytes of the frame to src and Framed calls
\* Decoder::decode on the buffer.
FeedAndDecode(n) ==
    /\ encoded
    /\ DecoderLive
    /\ Len(results) < MaxChunks
    /\ fed + n <= Len(Frame)
    /\ Len(results) = MaxChunks - 1 => fed + n = Len(Frame)
    /\ LET r == Decode(src \o SubSeq(Frame, fed + 1, fed + n))
       IN  /\ src' = r.src
           /\ results' = Append(results, r.res)
    /\ fed' = fed + n
    /\ UNCHANGED <<item, dst, encoded>>
    /\ UNCHANGED <<rvars, xvars>>

NextCodec ==
    \/ EncodeItem
    \/ \E n \in 1..(8 + 32) : FeedAndDecode(n)

-----------------------------------------------------------------------------
(* The connection slots (rpc.rs).                                          *)

Slots  == 0..(NumSlots - 1)
Nonces == 1..MaxNonce

Statuses == {"Opening", "Open", "Dead"}

\* Where a supervisor task (RetryIf around Connection::run) can stand:
\*   spawned    the task exists, run has not been called yet
\*   get_pipe   run sent Opening and awaits Rpc::get_pipe
\*   handshake  the pipe is open, run awaits the Handshake write
\*   ready      run awaits framed.next(), whose outcome it discards
\*   auth       run is in authenticate, before any request
\*   refreshed  refresh got its token, awaits the AUTHENTICATE enqueue
\*   loop       run is in the dispatch loop
\*   backoff    run returned an error RetryIf retries; the delay runs
\*   dead       the condition refused the retry (NotFound); the task is over
\*   exited     run returned Ok(()); the task is over
\*   panicked   run panicked; the task is over
Finished == {"dead", "exited", "panicked"}

\* struct Command {nonce, args, cmd}
Command(n, cmd, args) == [nonce |-> n, cmd |-> cmd, args |-> args]

\* The receiving half of a slot's channel lives in the supervisor task
\* (the retry closure owns out_rx): it is dropped, and the channel closed,
\* exactly when the task is over.
Closed(s) == pc[s] \in Finished

\* mpsc::Sender::send completes when the channel is open and has room; it
\* waits while the channel is full and fails once it is closed.
CanSend(s) == ~Closed(s) /\ Len(queue[s]) < QueueCap

\* A receive that takes the newest buffered command.
QueuePop_Newest(q) == [cmd |-> q[Len(q)], rest |-> SubSeq(q, 1, Len(q) - 1)]

\* mpsc::Receiver::recv takes the oldest buffered command.
QueuePop(q) == [cmd |-> Head(q), rest |-> Tail(q)]

\* The condition of RetryIf lets every error be retried.
RetryCondition_Always(err) == TRUE

\* The condition of RetryIf (Connection::new): an io::Error of kind NotFound
\* is not retried, every other error is.
RetryCondition(err) == err # "NotFound"

\* run returned Err(err) with the channel holding q: RetryIf asks the
\* condition.  Retried: the delay starts, the status stays what run last
\* sent.  Not retried: the condition has sent Dead, the task ends and drops
\* the channel's receiver with what it buffered.
RunFailed(s, err, q) ==
    /\ lastErr' = [lastErr EXCEPT ![s] = err]
    /\ expected' = [expected EXCEPT ![s] = {}]
    /\ IF RetryCondition(err)
       THEN /\ pc' = [pc EXCEPT ![s] = "backoff"]
            /\ status' = status
            /\ queue' = [queue EXCEPT ![s] = q]
       ELSE /\ pc' = [pc EXCEPT ![s] = "dead"]
            /\ status' = [status EXCEPT ![s] = "Dead"]
            /\ queue' = [queue EXCEPT ![s] = <<>>]

\* The task is over (run returned Ok, or panicked): nothing touches the
\* status again and the receiver is dropped.
TaskOver(s, how) ==
    /\ pc' = [pc EXCEPT ![s] = how]
    /\ expected' = [expected EXCEPT ![s] = {}]
    /\ queue' = [queue EXCEPT ![s] = <<>>]
    /\ UNCHANGED <<status, lastErr>>

\* run without its first line: the status is left as the last attempt set it.
RunStart_KeepsStatus(s) ==
    /\ pc[s] \in {"spawned", "backoff"}
    /\ pc' = [pc EXCEPT ![s] = "get_pipe"]
    /\ UNCHANGED <<cvars, xvars>>
    /\ UNCHANGED <<status, lastErr, queue, expected, rx, token, nextNonce, accepted, written, bc, found>>

\* run, first segment: ready.send(Status::Opening), then get_pipe is awaited.
RunStart(s) ==
    /\ pc[s] \in {"spawned", "backoff"}
    /\ pc' = [pc EXCEPT ![s] = "get_pipe"]
    /\ status' = [status EXCEPT ![s] = "Opening"]
    /\ UNCHANGED <<cvars, xvars>>
    /\ UNCHANGED <<lastErr, queue, expected, rx, token, nextNonce, accepted, written, bc, found>>

\* get_pipe (win.rs): on ERROR_PIPE_BUSY it sleeps 500 ms and opens again;
\* run is still awaiting get_pipe.
PipeBusy(s) ==
    /\ pc[s] = "get_pipe"
    /\ UNCHANGED vars

\* get_pipe returned the pipe: Framed::new, the Handshake write is awaited.
PipeOpened(s) ==
    /\ pc[s] = "get_pipe"
    /\ pc' = [pc EXCEPT ![s] = "handshake"]
    /\ UNCHANGED <<cvars, xvars>>
    /\ UNCHANGED <<status, lastErr, queue, expected, rx, token, nextNonce, accepted, written, bc, found>>

\* get_pipe failed: with NotFound (no pipe of that name) or with another error.
PipeFailed(s, err) ==
    /\ pc[s] = "get_pipe"
    /\ RunFailed(s, err, queue[s])
    /\ UNCHANGED <<cvars, xvars>>
    /\ UNCHANGED <<rx, token, nextNonce, accepted, written, bc, found>>

\* framed.send(Handshake) succeeded; framed.next() is awaited.
HandshakeSent(s) ==
    /\ pc[s] = "handshake"
    /\ pc' = [pc EXCEPT ![s] = "ready"]
    /\ UNCHANGED <<cvars, xvars>>
    /\ UNCHANGED <<status, lastErr, queue, expected, rx, token, nextNonce, accepted, written, bc, found>>

\* framed.send(Handshake) failed.
HandshakeFailed(s) ==
    /\ pc[s] = "handshake"
    /\ RunFailed(s, "Other", queue[s])
    /\ UNCHANGED <<cvars, xvars>>
    /\ UNCHANGED <<rx, token, nextNonce, accepted, written, bc, found>>

\* `framed.next().await;`: whatever it yields (a packet, an error, the end
\* of the stream) is dropped and authenticate is entered.
ReadyDiscarded(s) ==
    /\ pc[s] = "ready"
    /\ pc' = [pc EXCEPT ![s] = "auth"]
    /\ UNCHANGED <<cvars, xvars>>
    /\ UNCHANGED <<status, lastErr, queue, expected, rx, token, nextNonce, accepted, written, bc, found>>

\* ---- authenticate ----

\* The token's age at the two comparisons of authenticate:
\*   "none"     no entry in the store
\*   "expired"  expires_at < now
\*   "soon"     now <= expires_at < now + 24 h
\*   "fresh"    now + 24 h <= expires_at
Tokens == {"none", "expired", "soon", "fresh"}

\* Time passes between the moment a token is stored and the moment
\* authenticate compares it with Timestamp::now(): the ages a token stored at
\* age t may show when it is read.
Aged(t) ==
    CASE t = "fresh" -> {"fresh", "soon", "expired"}
      [] t = "soon"  -> {"soon", "expired"}
      [] OTHER       -> {t}

\* authenticate loads the slot's token and compares it with the clock: it
\* sees the token at one of the ages it may show now, and the token is at
\* least that old from now on.
Loaded(s, age) ==
    /\ age \in Aged(token[s])
    /\ token' = [token EXCEPT ![s] = age]

\* The store cannot be opened, or its entry does not parse (lines 227, 230,
\* 239): authenticate fails before any request.
AuthStoreFailed(s) ==
    /\ pc[s] = "auth"
    /\ RunFailed(s, "Other", queue[s])
    /\ UNCHANGED <<cvars, xvars>>
    /\ UNCHANGED <<rx, token, nextNonce, accepted, written, bc, found>>

\* expect_response(nonce): the receiver is taken out of Connection.rx, where
\* only the dispatch loop puts it, when it takes the command from the queue.
HasListener(s, n) == n \in rx[s]

\* No token, or an expired one: authorize.  It draws a nonce, enqueues
\* AUTHORIZE (waiting while the channel is full) and calls expect_response.
\* The dispatch loop of this task is not running, so the nonce has no
\* listener and authorize fails with "no listener for nonce".
Authorize(s) ==
    /\ pc[s] = "auth"
    /\ \E age \in {"none", "expired"} : Loaded(s, age)
    /\ nextNonce < MaxNonce
    /\ CanSend(s)
    /\ LET n == nextNonce + 1 IN
        /\ ~HasListener(s, n)
        /\ nextNonce' = n
        /\ accepted' = [accepted EXCEPT ![s] = Append(@, n)]
        /\ RunFailed(s, "Other", Append(queue[s], Command(n, "AUTHORIZE", "client_id")))
    /\ UNCHANGED <<cvars, xvars>>
    /\ UNCHANGED <<rx, written, bc, found>>

\* A token that expires within 24 h: refresh posts to the token endpoint,
\* which may refuse.
RefreshFailed(s) ==
    /\ pc[s] = "auth"
    /\ Loaded(s, "soon")
    /\ RunFailed(s, "Other", queue[s])
    /\ UNCHANGED <<cvars, xvars>>
    /\ UNCHANGED <<rx, nextNonce, accepted, written, bc, found>>

\* The token endpoint answers with a new token; the AUTHENTICATE enqueue is
\* awaited.
RefreshGranted(s) ==
    /\ pc[s] = "auth"
    /\ Loaded(s, "soon")
    /\ pc' = [pc EXCEPT ![s] = "refreshed"]
    /\ UNCHANGED <<cvars, xvars>>
    /\ UNCHANGED <<status, lastErr, queue, expected, rx, nextNonce, accepted, written, bc, found>>

\* refresh enqueues AUTHENTICATE (waiting while the channel is full) and
\* returns the new token; authenticate stores it and run sends Open.  The
\* new token's expiry is the server's choice (expires_in).
RefreshedOpen(s, newToken) ==
    /\ pc[s] = "refreshed"
    /\ nextNonce < MaxNonce
    /\ CanSend(s)
    /\ LET n == nextNonce + 1 IN
        /\ nextNonce' = n
        /\ accepted' = [accepted EXCEPT ![s] = Append(@, n)]
        /\ queue' = [queue EXCEPT ![s] = Append(@, Command(n, "AUTHENTICATE", "access_token"))]
    /\ token' = [token EXCEPT ![s] = newToken]
    /\ status' = [status EXCEPT ![s] = "Open"]
    /\ pc' = [pc EXCEPT ![s] = "loop"]
    /\ expected' = [expected EXCEPT ![s] = {}]
    /\ UNCHANGED <<cvars, xvars>>
    /\ UNCHANGED <<lastErr, rx, written, bc, found>>

\* A token good for more than 24 h: no request; it is stored again and run
\* sends Open.
AuthAsIs(s) ==
    /\ pc[s] = "auth"
    /\ Loaded(s, "fresh")
    /\ status' = [status EXCEPT ![s] = "Open"]
    /\ pc' = [pc EXCEPT ![s] = "loop"]
    /\ expected' = [expected EXCEPT ![s] = {}]
    /\ UNCHANGED <<cvars, xvars>>
    /\ UNCHANGED <<lastErr, queue, rx, nextNonce, accepted, written, bc, found>>

\* ---- the dispatch loop ----

\* select! took a command from the queue: both maps get its nonce and the
\* Frame is written.
LoopCommandWritten(s) ==
    /\ pc[s] = "loop"
    /\ queue[s] # <<>>
    /\ LET p == QueuePop(queue[s]) IN
        /\ queue' = [queue EXCEPT ![s] = p.rest]
        /\ expected' = [expected EXCEPT ![s] = @ \cup {p.cmd.nonce}]
        /\ rx' = [rx EXCEPT ![s] = @ \cup {p.cmd.nonce}]
        /\ written' = [written EXCEPT ![s] = Append(@, p.cmd.nonce)]
    /\ UNCHANGED <<cvars, xvars>>
    /\ UNCHANGED <<status, pc, lastErr, token, nextNonce, accepted, bc, found>>

\* The same, but framed.send fails: the command is gone and run returns the error.
LoopCommandWriteFailed(s) ==
    /\ pc[s] = "loop"
    /\ queue[s] # <<>>
    /\ LET p == QueuePop(queue[s]) IN
        /\ rx' = [rx EXCEPT ![s] = @ \cup {p.cmd.nonce}]
        /\ RunFailed(s, "Other", p.rest)
    /\ UNCHANGED <<cvars, xvars>>
    /\ UNCHANGED <<token, nextNonce, accepted, written, bc, found>>

\* framed.next() yields Some(Err): a read error, an unknown op code or a
\* body that is not JSON (decode's errors).
LoopReadFailed(s) ==
    /\ pc[s] = "loop"
    /\ RunFailed(s, "Other", queue[s])
    /\ UNCHANGED <<cvars, xvars>>
    /\ UNCHANGED <<rx, token, nextNonce, accepted, written, bc, found>>

\* An inbound Ping: the Pong with the same body is written.
LoopPing(s) ==
    /\ pc[s] = "loop"
    /\ UNCHANGED vars

\* An inbound Ping whose Pong cannot be written.
LoopPongFailed(s) ==
    /\ pc[s] = "loop"
    /\ RunFailed(s, "Other", queue[s])
    /\ UNCHANGED <<cvars, xvars>>
    /\ UNCHANGED <<rx, token, nextNonce, accepted, written, bc, found>>

\* An inbound Close, or the end of the stream (framed.next() yields None):
\* `break`, run returns Ok(()) and RetryIf, having nothing to retry, ends.
LoopClosed(s) ==
    /\ pc[s] = "loop"
    /\ TaskOver(s, "exited")
    /\ UNCHANGED <<cvars, xvars>>
    /\ UNCHANGED <<rx, token, nextNonce, accepted, written, bc, found>>

\* An inbound Frame with the nonce n (0: a nonce no command carried): the
\* responder registered for it, if any, gets the packet and is removed from
\* `expected`.
LoopFrame(s, n) ==
    /\ pc[s] = "loop"
    /\ n \in 0..nextNonce
    /\ expected' = [expected EXCEPT ![s] = @ \ {n}]
    /\ UNCHANGED <<cvars, xvars>>
    /\ UNCHANGED <<status, pc, lastErr, queue, rx, token, nextNonce, accepted, written, bc, found>>

\* An inbound Frame whose "nonce" is present but no Ulid (null, a number):
\* from_value fails and run returns the error.
LoopFrameBadNonce(s) ==
    /\ pc[s] = "loop"
    /\ RunFailed(s, "Other", queue[s])
    /\ UNCHANGED <<cvars, xvars>>
    /\ UNCHANGED <<rx, token, nextNonce, accepted, written, bc, found>>

\* An inbound Frame without a "nonce" field: `.get("nonce").unwrap()` panics
\* and the task is over.
LoopFrameNoNonce(s) ==
    /\ pc[s] = "loop"
    /\ TaskOver(s, "panicked")
    /\ UNCHANGED <<cvars, xvars>>
    /\ UNCHANGED <<rx, token, nextNonce, accepted, written, bc, found>>

\* An inbound Handshake or Pong: `_ => {}`.
LoopIgnored(s) ==
    /\ pc[s] = "loop"
    /\ UNCHANGED vars

-----------------------------------------------------------------------------
(* The pool's broadcast (Rpc::set_activity, clear_activity, send_all).     *)
(* The shell's commands hold the RpcState lock for the whole call, so one  *)
(* send_all runs at a time.                                                *)

BcIdle == bc.pc \in {"idle", "ok", "err"}

NoCommand == Command(0, "none", "none")

\* The filter is done with slot s: on to the next slot, or the stream is
\* over and send_all returns Ok(()).
BcAdvance(s) == IF s + 1 = NumSlots THEN [bc EXCEPT !.pc = "ok", !.i = NumSlots]
                ELSE [bc EXCEPT !.pc = "filter", !.i = s + 1]

\* Rpc::set_activity (args: pid and activity) and Rpc::clear_activity (args:
\* pid alone) draw a nonce and enter send_all, which polls the filter on the
\* first connection.
StartSendAll(args) ==
    /\ BcIdle
    /\ nextNonce < MaxNonce
    /\ nextNonce' = nextNonce + 1
    /\ bc' = [pc |-> "filter", i |-> 0, cmd |-> Command(nextNonce + 1, "SET_ACTIVITY", args)]
    /\ found' = [s \in Slots |-> "none"]
    /\ UNCHANGED <<cvars, xvars>>
    /\ UNCHANGED <<status, pc, lastErr, queue, expected, rx, token, accepted, written>>

RpcSetActivity == StartSendAll("pid,activity")

RpcClearActivity == StartSendAll("pid")

\* open_connections' filter lets a connection through whatever its status.
FilterResolved_NoWait(s) == status[s] \in Statuses

\* open_connections' filter on slot s returns when the status it borrows is
\* Open or Dead; on Opening it awaits the next change.
FilterResolved(s) == status[s] \in {"Open", "Dead"}

\* The filter returns for the connection at bc.i: true on Open (the stream
\* yields the connection and send is called), false on Dead.
FilterReturns ==
    /\ bc.pc = "filter"
    /\ LET s == bc.i IN
        /\ FilterResolved(s)
        /\ found' = [found EXCEPT ![s] = status[s]]
        /\ bc' = IF status[s] = "Dead" THEN BcAdvance(s) ELSE [bc EXCEPT !.pc = "send"]
    /\ UNCHANGED <<cvars, xvars>>
    /\ UNCHANGED <<status, pc, lastErr, queue, expected, rx, token, nextNonce, accepted, written>>

\* conn.send(data.clone()): the channel accepts the command.
SendAccepted ==
    /\ bc.pc = "send"
    /\ LET s == bc.i IN
        /\ CanSend(s)
        /\ queue' = [queue EXCEPT ![s] = Append(@, bc.cmd)]
        /\ accepted' = [accepted EXCEPT ![s] = Append(@, bc.cmd.nonce)]
        /\ bc' = BcAdvance(s)
    /\ UNCHANGED <<cvars, xvars>>
    /\ UNCHANGED <<status, pc, lastErr, expected, rx, token, nextNonce, written, found>>

\* conn.send(data.clone()) fails, the channel being closed: `?` returns the
\* error from send_all.
SendFailed ==
    /\ bc.pc = "send"
    /\ Closed(bc.i)
    /\ bc' = [bc EXCEPT !.pc = "err"]
    /\ UNCHANGED <<cvars, xvars>>
    /\ UNCHANGED <<status, pc, lastErr, queue, expected, rx, token, nextNonce, accepted, written, found>>

-----------------------------------------------------------------------------
(* authenticate's choice between authorize, refresh and the stored token,  *)
(* on clock values (Connection::authenticate, rpc.rs).  Time is in hours.  *)

\* SignedDuration::from_hours(24)
Day == 24

\* The clock runs from 0 to MaxClock.
MaxClock == 2

\* expires_at of the entries the store may hold: from before the clock's
\* start to more than a day after its end.
\* No entry in the store (app.store("auth").get returns None).
NoToken == -1

StoredTokens == {NoToken} \cup (0..(MaxClock + Day + 2))

\* expires_in of the token endpoint's answers.
ExpiresIn == {0, Day - 1, Day + 1}

\* The two comparisons of authenticate (lines 228-235) on the entry tok, with
\* the clock reading n1 at the first and n2 at the second.
AgeAt(tok, n1, n2) ==
    IF tok = NoToken THEN "none"
    ELSE IF tok < n1 THEN "expired"
    ELSE IF tok < n2 + Day THEN "soon"
    ELSE "fresh"

\* The comparisons in the other order: within a day first, expired second.
AuthCase_RefreshFirst(tok, n1, n2) ==
    IF tok = NoToken THEN <<"authorize">>
    ELSE IF tok < n2 + Day THEN <<"refresh">>
    ELSE IF tok < n1 THEN <<"authorize">>
    ELSE <<>>

\* What authenticate performs: authorize on no entry or an expired one (it
\* fails, so nothing follows it), refresh on one that expires within a day,
\* nothing otherwise.
AuthCase(tok, n1, n2) ==
    CASE AgeAt(tok, n1, n2) \in {"none", "expired"} -> <<"authorize">>
      [] AgeAt(tok, n1, n2) = "soon" -> <<"refresh">>
      [] OTHER -> <<>>

InitAuthVars ==
    /\ stored \in StoredTokens
    /\ now = 0
    /\ seen = [tok |-> NoToken, n1 |-> 0, n2 |-> 0]
    /\ did = <<>>
    /\ ret = "idle"

\* Time passes.
Tick ==
    /\ now < MaxClock
    /\ now' = now + 1
    /\ UNCHANGED <<stored, seen, did, ret>>
    /\ UNCHANGED xAuth

\* authenticate, the clock advancing by d between its two readings.  The
\* request of refresh is answered with expires_in = e (ok) or refused;
\* authorize fails at expect_response.
AuthenticateCall(d, ok, e) ==
    /\ now + d <= MaxClock
    /\ LET n1 == now
           n2 == now + d
           case == AuthCase(stored, n1, n2)
       IN  /\ seen' = [tok |-> stored, n1 |-> n1, n2 |-> n2]
           /\ now' = n2
           /\ did' = case
           /\ IF case = <<"authorize">>
              THEN ret' = "Err" /\ stored' = stored
              ELSE IF case = <<"refresh">>
              THEN IF ok THEN ret' = "Ok" /\ stored' = n2 + e
                         ELSE ret' = "Err" /\ stored' = stored
              ELSE ret' = "Ok" /\ stored' = stored
    /\ UNCHANGED xAuth

NextAuth ==
    \/ Tick
    \/ \E d \in 0..1, ok \in BOOLEAN, e \in ExpiresIn : AuthenticateCall(d, ok, e)

\* The variables of this part while another part runs.
IdleAuth ==
    /\ stored = NoToken
    /\ now = 0
    /\ seen = [tok |-> NoToken, n1 |-> 0, n2 |-> 0]
    /\ did = <<>>
    /\ ret = "idle"

-----------------------------------------------------------------------------
(* The shell's commands (commands/rpc.rs): connect, which builds a pool    *)
(* and puts it into the managed state, and set_activity, which updates the *)
(* artwork and broadcasts.  A pool's supervisors are kept as three         *)
(* positions: opening (before Open is sent), open (in the dispatch loop),  *)
(* over (the task has ended).                                              *)

\* At most MaxPools pools are built.
MaxPools == 2

\* At most MaxBroadcasts commands are handed to send_all.
MaxBroadcasts == 2

Pools == 1..MaxPools

\* Option<Rpc>::None in the managed state.
NoPool == 0

\* The set_activity command holds the state's Mutex from its first line to
\* its return.
LockHeld == shell.pc \in {"artwork", "send_all"}

\* Pool g has been built and neither the managed state nor a connect call
\* in progress holds it: the Rpc and its Vec<Connection> have been dropped.
Dropped(g) ==
    /\ g \in 1..pools
    /\ rpcState # g
    /\ ~(conn.pc = "built" /\ conn.gen = g)

\* A supervisor task that has not ended.
Running(g, s) == sup[g][s] \in {"opening", "open"}

InitShellVars ==
    /\ rpcState = NoPool
    /\ pools = 0
    /\ sup = [g \in Pools |-> [s \in Slots |-> "none"]]
    /\ conn = [pc |-> "idle", gen |-> 0]
    /\ shell = [pc |-> "idle", media |-> FALSE, art |-> "none", pool |-> NoPool]
    /\ broadcasts = <<>>

\* connect(Some(client_id)), first part: Rpc::new builds the connections,
\* and each Connection::new spawns its supervisor; the state's lock is
\* awaited.
ConnectBuild ==
    /\ conn.pc = "idle"
    /\ pools < MaxPools
    /\ pools' = pools + 1
    /\ sup' = [sup EXCEPT ![pools + 1] = [s \in Slots |-> "opening"]]
    /\ conn' = [pc |-> "built", gen |-> pools + 1]
    /\ UNCHANGED <<rpcState, shell, broadcasts>>
    /\ UNCHANGED xShell

\* connect(Some(client_id)), second part: the lock is taken and the new pool
\* assigned; the pool held before is dropped.  Nothing tells its supervisors.
ConnectStore ==
    /\ conn.pc = "built"
    /\ ~LockHeld
    /\ rpcState' = conn.gen
    /\ conn' = [pc |-> "idle", gen |-> 0]
    /\ UNCHANGED <<pools, sup, shell, broadcasts>>
    /\ UNCHANGED xShell

\* connect(None): the lock is taken and None assigned; the pool held before
\* is dropped.
ConnectNone ==
    /\ conn.pc = "idle"
    /\ ~LockHeld
    /\ rpcState # NoPool
    /\ rpcState' = NoPool
    /\ UNCHANGED <<pools, sup, conn, shell, broadcasts>>
    /\ UNCHANGED xShell

\* A supervisor's attempt gets through get_pipe, the handshake and
\* authenticate: run sends Open.
SupOpened(g, s) ==
    /\ sup[g][s] = "opening"
    /\ sup' = [sup EXCEPT ![g][s] = "open"]
    /\ UNCHANGED <<rpcState, pools, conn, shell, broadcasts>>
    /\ UNCHANGED xShell

\* The dispatch loop ends with an error RetryIf retries: run is called again,
\* sends Opening and opens the pipe anew.
SupRetried(g, s) ==
    /\ sup[g][s] = "open"
    /\ sup' = [sup EXCEPT ![g][s] = "opening"]
    /\ UNCHANGED <<rpcState, pools, conn, shell, broadcasts>>
    /\ UNCHANGED xShell

\* The task ends: NotFound from get_pipe, or Close, the end of the stream
\* or a panic in the dispatch loop.
SupOver(g, s) ==
    /\ Running(g, s)
    /\ sup' = [sup EXCEPT ![g][s] = "over"]
    /\ UNCHANGED <<rpcState, pools, conn, shell, broadcasts>>
    /\ UNCHANGED xShell

\* The command Rpc::set_activity / Rpc::clear_activity hands to send_all on
\* the pool g.
Broadcasting(g, args) == [pool |-> g, cmd |-> "SET_ACTIVITY", args |-> args]

\* A failed artwork update that is not propagated: the broadcast goes ahead.
ArtworkFailed_Ignored ==
    /\ shell.pc = "artwork"
    /\ shell' = [shell EXCEPT !.pc = "send_all", !.art = "failed"]
    /\ broadcasts' = Append(broadcasts, Broadcasting(shell.pool, "pid,activity"))
    /\ UNCHANGED <<rpcState, pools, sup, conn>>
    /\ UNCHANGED xShell

\* set_activity(media), first part: the lock is taken; without a pool the
\* command returns "must connect before setting activity"; with media None
\* clear_activity is called; otherwise api.set_artwork is awaited.
ShellSetActivity(media) ==
    /\ ~LockHeld
    /\ Len(broadcasts) < MaxBroadcasts
    /\ IF rpcState = NoPool
       THEN /\ shell' = [pc |-> "err", media |-> media, art |-> "none", pool |-> NoPool]
            /\ UNCHANGED broadcasts
       ELSE IF ~media
       THEN /\ shell' = [pc |-> "send_all", media |-> media, art |-> "none", pool |-> rpcState]
            /\ broadcasts' = Append(broadcasts, Broadcasting(rpcState, "pid"))
       ELSE /\ shell' = [pc |-> "artwork", media |-> media, art |-> "none", pool |-> rpcState]
            /\ UNCHANGED broadcasts
    /\ UNCHANGED <<rpcState, pools, sup, conn>>
    /\ UNCHANGED xShell

\* api.set_artwork returned Ok: Rpc::set_activity is called with the activity.
ArtworkOk ==
    /\ shell.pc = "artwork"
    /\ shell' = [shell EXCEPT !.pc = "send_all", !.art = "ok"]
    /\ broadcasts' = Append(broadcasts, Broadcasting(shell.pool, "pid,activity"))
    /\ UNCHANGED <<rpcState, pools, sup, conn>>
    /\ UNCHANGED xShell

\* api.set_artwork returned Err: `?` returns it from the command.
ArtworkFailed ==
    /\ shell.pc = "artwork"
    /\ shell' = [shell EXCEPT !.pc = "err", !.art = "failed"]
    /\ UNCHANGED <<rpcState, pools, sup, conn, broadcasts>>
    /\ UNCHANGED xShell

\* send_all returns: Ok when the stream of open connections is over, Err
\* when a send met a closed channel (a supervisor that is over).  It waits
\* while a connection of the pool is opening.
SendAllReturns(res) ==
    /\ shell.pc = "send_all"
    /\ \A s \in Slots : sup[shell.pool][s] # "opening"
    /\ res = "err" => \E s \in Slots : sup[shell.pool][s] = "over"
    /\ shell' = [shell EXCEPT !.pc = res]
    /\ UNCHANGED <<rpcState, pools, sup, conn, broadcasts>>
    /\ UNCHANGED xShell

NextShell ==
    \/ ConnectBuild
    \/ ConnectStore
    \/ ConnectNone
    \/ \E g \in Pools, s \in Slots : SupOpened(g, s)
    \/ \E g \in Pools, s \in Slots : SupRetried(g, s)
    \/ \E g \in Pools, s \in Slots : SupOver(g, s)
    \/ \E media \in BOOLEAN : ShellSetActivity(media)
    \/ ArtworkOk
    \/ ArtworkFailed
    \/ \E res \in {"ok", "err"} : SendAllReturns(res)

\* The variables of this part while another part runs.
IdleShell == InitShellVars

-----------------------------------------------------------------------------
(* The artwork server (media/serve.rs): the register behind GET /{hash}    *)
(* and the tunnel's URL behind public_url().  The tunnel task and the      *)
(* callers of public_url run on a multi-threaded runtime: their steps are  *)
(* single statements.                                                      *)

\* A hash has HexLen hexadecimal digits (64 for BLAKE3, fewer here).
HexLen == 2

\* At most MaxCallers tasks call public_url().
MaxCallers == 2

Callers == 1..MaxCallers

NoArtwork == [bytes |-> <<>>, mime |-> "none", hash |-> <<>>]

NoUrl == ""

\* The images and MIME types set_artwork is called with.
Images == { <<1>>, <<2>>, <<1, 2>> }
Mimes == {"image/png", "image/jpeg"}

\* blake3::hash, as the sequence of the hexadecimal digits of its value.  A
\* stand-in: it differs on any two images of Images.
Blake3(bytes) ==
    [i \in 1..HexLen |->
        IF i = 1 THEN (bytes[1] * 7 + Len(bytes)) % 16
        ELSE (bytes[Len(bytes)] + i) % 16]

\* A hexadecimal digit as a character, in lower or upper case.
HexChar(n, upper) ==
    IF n < 10 THEN 48 + n
    ELSE IF upper THEN 65 + (n - 10) ELSE 97 + (n - 10)

HexText(h, upper) == [i \in 1..Len(h) |-> HexChar(h[i], upper)]

\* The value of a hexadecimal character, -1 for any other character.
HexValue(c) ==
    IF c >= 48 /\ c <= 57 THEN c - 48
    ELSE IF c >= 97 /\ c <= 102 THEN c - 97 + 10
    ELSE IF c >= 65 /\ c <= 70 THEN c - 65 + 10
    ELSE -1

\* hash.parse::<Hash>() (Hash::from_hex): exactly HexLen hexadecimal
\* characters of either case, or an error.
ParseHash(text) ==
    IF Len(text) = HexLen /\ \A i \in 1..Len(text) : HexValue(text[i]) >= 0
    THEN [ok |-> TRUE, hash |-> [i \in 1..Len(text) |-> HexValue(text[i])]]
    ELSE [ok |-> FALSE, hash |-> <<>>]

\* The paths requested: the hash of every image in both cases, a text too
\* short, one too long and one that is not hexadecimal.
Paths ==
    { HexText(Blake3(b), u) : b \in Images, u \in BOOLEAN }
        \cup { <<48>>, [i \in 1..(HexLen + 1) |-> 48], [i \in 1..HexLen |-> 122] }

NotFound404 == [status |-> 404, mime |-> "none", body |-> <<>>]

Ok200(artwork) == [status |-> 200, mime |-> artwork.mime, body |-> artwork.bytes]

\* handle_request with the comparison left out: any parsable hash is served.
Respond_AnyHash(artwork, path) ==
    IF artwork = NoArtwork THEN NotFound404
    ELSE IF ~ParseHash(path).ok THEN NotFound404
    ELSE Ok200(artwork)

\* handle_request: 404 on an empty register, 404 on a path that is no hash,
\* 200 with the record's MIME type and bytes when the hashes are equal, 404
\* otherwise.
Respond(artwork, path) ==
    IF artwork = NoArtwork THEN NotFound404
    ELSE IF ~ParseHash(path).ok THEN NotFound404
    ELSE IF ParseHash(path).hash = artwork.hash THEN Ok200(artwork)
    ELSE NotFound404

URLs == {"https://a.trycloudflare.com", "https://b.trycloudflare.com"}

InitServeVars ==
    /\ current_artwork = NoArtwork
    /\ request = <<>>
    /\ response = NotFound404
    /\ public_url = NoUrl
    /\ tunnel = "reading"
    /\ callers = [c \in Callers |-> "idle"]

\* Server::set_artwork: under the register's lock, the record is replaced
\* and its hash computed from the bytes.
SetArtwork(mime, bytes) ==
    /\ current_artwork' = [bytes |-> bytes, mime |-> mime, hash |-> Blake3(bytes)]
    /\ UNCHANGED <<request, response, public_url, tunnel, callers>>
    /\ UNCHANGED xServe

\* Server::handle_request for GET /{path}, under the register's lock.
HandleRequest(path) ==
    /\ request' = path
    /\ response' = Respond(current_artwork, path)
    /\ UNCHANGED <<current_artwork, public_url, tunnel, callers>>
    /\ UNCHANGED xServe

\* open_tunnel reads a stderr line with a URL: public_url.set(url), which
\* does nothing when the cell is already set; notify_waiters comes next.
TunnelSetsUrl(url) ==
    /\ tunnel = "reading"
    /\ public_url' = IF public_url = NoUrl THEN url ELSE public_url
    /\ tunnel' = "notify"
    /\ UNCHANGED <<current_artwork, request, response, callers>>
    /\ UNCHANGED xServe

\* url_ready.notify_waiters(): every Notified future that exists is woken;
\* no permit is kept for one created later.
TunnelNotifies ==
    /\ tunnel = "notify"
    /\ callers' = [c \in Callers |-> IF callers[c] = "waiting" THEN "sleeping" ELSE callers[c]]
    /\ tunnel' = "reading"
    /\ UNCHANGED <<current_artwork, request, response, public_url>>
    /\ UNCHANGED xServe

\* open_tunnel reads an event without a URL.
TunnelOtherEvent ==
    /\ tunnel = "reading"
    /\ UNCHANGED vars

\* The event stream ends (cloudflared has exited): open_tunnel returns.
TunnelEnds ==
    /\ tunnel = "reading"
    /\ tunnel' = "done"
    /\ UNCHANGED <<current_artwork, request, response, public_url, callers>>
    /\ UNCHANGED xServe

\* public_url(): self.public_url.get() is Some, the URL is returned; it is
\* None, the None arm is entered.
CallerChecks(c) ==
    /\ callers[c] = "idle"
    /\ callers' = [callers EXCEPT ![c] = IF public_url # NoUrl THEN "returned" ELSE "saw_none"]
    /\ UNCHANGED <<current_artwork, request, response, public_url, tunnel>>
    /\ UNCHANGED xServe

\* self.url_ready.notified() is created and awaited.
CallerWaits(c) ==
    /\ callers[c] = "saw_none"
    /\ callers' = [callers EXCEPT ![c] = "waiting"]
    /\ UNCHANGED <<current_artwork, request, response, public_url, tunnel>>
    /\ UNCHANGED xServe

\* After the wake-up and the 5 s sleep: self.public_url.get().unwrap().
CallerReturns(c) ==
    /\ callers[c] = "sleeping"
    /\ callers' = [callers EXCEPT ![c] = IF public_url # NoUrl THEN "returned" ELSE "panicked"]
    /\ UNCHANGED <<current_artwork, request, response, public_url, tunnel>>
    /\ UNCHANGED xServe

NextServe ==
    \/ \E m \in Mimes, b \in Images : SetArtwork(m, b)
    \/ \E p \in Paths : HandleRequest(p)
    \/ \E u \in URLs : TunnelSetsUrl(u)
    \/ TunnelNotifies
    \/ TunnelOtherEvent
    \/ TunnelEnds
    \/ \E c \in Callers : CallerChecks(c)
    \/ \E c \in Callers : CallerWaits(c)
    \/ \E c \in Callers : CallerReturns(c)

\* The variables of this part while another part runs.
IdleServe == InitServeVars

-----------------------------------------------------------------------------
(* The media adaptors: the macOS helper's lines (media_remote.rs) and the  *)
(* Windows session timeline (media/win.rs), made into Media snapshots.     *)
(*                                                                         *)
(* Times are 64-bit and wider than the checker's integers: a number is a   *)
(* sequence of Limbs digits in base Base, lowest first.  A Timestamp is    *)
(* the nanoseconds since the Unix epoch, a SignedDuration a sign and the   *)
(* nanoseconds of its magnitude.                                           *)

Base == 1000000

Limbs == 4

\* The number n (below 2^31) in limbs.
BigOf(n) == <<n % Base, (n \div Base) % Base, (n \div Base) \div Base, 0>>

RECURSIVE BAddFrom(_, _, _, _)
BAddFrom(x, y, i, carry) ==
    IF i > Limbs THEN <<>>
    ELSE LET t == x[i] + y[i] + carry
         IN  <<t % Base>> \o BAddFrom(x, y, i + 1, t \div Base)

BAdd(x, y) == BAddFrom(x, y, 1, 0)

\* x - y for x >= y.
RECURSIVE BSubFrom(_, _, _, _)
BSubFrom(x, y, i, borrow) ==
    IF i > Limbs THEN <<>>
    ELSE LET t == x[i] - y[i] - borrow
         IN  IF t < 0 THEN <<t + Base>> \o BSubFrom(x, y, i + 1, 1)
             ELSE <<t>> \o BSubFrom(x, y, i + 1, 0)

BSub(x, y) == BSubFrom(x, y, 1, 0)

\* x * k for k <= 1000.
RECURSIVE BMulFrom(_, _, _, _)
BMulFrom(x, k, i, carry) ==
    IF i > Limbs THEN <<>>
    ELSE LET t == x[i] * k + carry
         IN  <<t % Base>> \o BMulFrom(x, k, i + 1, t \div Base)

BMul(x, k) == BMulFrom(x, k, 1, 0)

\* x / k rounded down, for k <= 1000: from the highest limb down.
RECURSIVE BDivFrom(_, _, _, _)
BDivFrom(x, k, i, rem) ==
    IF i < 1 THEN <<>>
    ELSE LET t == rem * Base + x[i]
         IN  BDivFrom(x, k, i - 1, t % k) \o <<t \div k>>

BDiv(x, k) == BDivFrom(x, k, Limbs, 0)

RECURSIVE BLeqFrom(_, _, _)
BLeqFrom(x, y, i) ==
    IF i < 1 THEN TRUE
    ELSE IF x[i] < y[i] THEN TRUE
    ELSE IF x[i] > y[i] THEN FALSE
    ELSE BLeqFrom(x, y, i - 1)

BLeq(x, y) == BLeqFrom(x, y, Limbs)

\* SignedDuration: sign and magnitude in nanoseconds.
Dur(neg, mag) == [neg |-> neg, mag |-> mag]

\* Timestamp + SignedDuration and Timestamp - SignedDuration (results on or
\* after the Unix epoch).
TsAdd(ts, d) == IF d.neg THEN BSub(ts, d.mag) ELSE BAdd(ts, d.mag)
TsSub(ts, d) == IF d.neg THEN BAdd(ts, d.mag) ELSE BSub(ts, d.mag)

\* A whole number n of seconds (|n| below 2^31) as a SignedDuration.
FromSecs(n) ==
    Dur(n < 0, BMul(BMul(BMul(BigOf(IF n < 0 THEN 0 - n ELSE n), 1000), 1000), 1000))

\* ---- media/win.rs ----

\* The seconds from 1601-01-01 to 1970-01-01: 11,644,473,600.
UniversalEpochSecs == <<473600, 11644, 0, 0>>

\* from_date_time: universal_epoch() + from_micros(UniversalTime / 10), for
\* a time on or after the Unix epoch: the microseconds, in nanoseconds,
\* less the epoch's distance.
FromDateTime(ticks) ==
    BSub(BMul(BDiv(ticks, 10), 1000),
         BMul(BMul(BMul(UniversalEpochSecs, 1000), 1000), 1000))

\* from_time_span with a factor of 1000.
FromTimeSpan_Thousand(ticks) ==
    Dur(ticks < 0, BMul(BigOf(IF ticks < 0 THEN 0 - ticks ELSE ticks), 1000))

\* from_time_span: from_nanos(Duration * 100).
FromTimeSpan(ticks) ==
    Dur(ticks < 0, BMul(BigOf(IF ticks < 0 THEN 0 - ticks ELSE ticks), 100))

\* Media::from_windows, the two timestamps (lines 138-143 of win.rs).
FromWindows(tl) ==
    LET last_updated == FromDateTime(tl.LastUpdatedTime)
        elapsed == FromTimeSpan(tl.Position)
        start_duration == FromTimeSpan(tl.StartTime)
        start == TsAdd(TsSub(last_updated, elapsed), start_duration)
        end == TsSub(TsAdd(start, FromTimeSpan(tl.EndTime)), start_duration)
    IN  [kind |-> "Some", start |-> start, end |-> end]

\* 133,000,000,000,000,000 ticks, and the same with 7 ticks more (less than
\* a microsecond).
LastUpdatedTimes == { <<0, 0, 133000, 0>>, <<7, 0, 133000, 0>> }

Timelines ==
    [LastUpdatedTime : LastUpdatedTimes,
     Position : {0, 5, 600000000},
     StartTime : {0, 100000000},
     EndTime : {0, 1800000000}]

NoTimeline == [LastUpdatedTime |-> <<0, 0, 0, 0>>, Position |-> 0, StartTime |-> 0, EndTime |-> 0]

\* ---- media/mac/media_remote.rs ----

\* The members of the payload that NowPlayingInfo names (album and
\* chapterNumber, which nothing reads, left out).
Required == {"bundleIdentifier", "playing", "title"}
Optional == {"artist", "duration", "elapsedTime", "timestamp", "artworkMimeType", "artworkData"}

\* A line of the helper: the members its payload has, the value of playing
\* and of duration (seconds); elapsedTime is 60 s and timestamp
\* 1,700,000,000 s where present.
Lines ==
    [present : SUBSET (Required \cup Optional),
     playing : BOOLEAN,
     duration : {0 - 1, 0, 180}]

NoLine == [present |-> {}, playing |-> FALSE, duration |-> 0]

ElapsedSecs == 60
TimestampSecs == 1700000000

\* from_str::<StreamPayload>: a member without Option or default that is
\* missing is an error.
Deserialize(line) == Required \subseteq line.present

\* From<NowPlayingInfo> for Option<Media>.
IntoMedia(line) ==
    IF ~line.playing THEN [kind |-> "None", start |-> BigOf(0), end |-> BigOf(0)]
    ELSE IF ~(Optional \subseteq line.present) THEN [kind |-> "None", start |-> BigOf(0), end |-> BigOf(0)]
    ELSE LET start == TsSub(FromSecs(TimestampSecs).mag, FromSecs(ElapsedSecs))
             end == TsAdd(start, FromSecs(line.duration))
         IN  [kind |-> "Some", start |-> start, end |-> end]

Pending == [kind |-> "pending", start |-> BigOf(0), end |-> BigOf(0)]
Failed == [kind |-> "Err", start |-> BigOf(0), end |-> BigOf(0)]

InitMediaVars ==
    /\ \/ observation \in [os : {"mac"}, line : Lines, tl : {NoTimeline}]
       \/ observation \in [os : {"win"}, line : {NoLine}, tl : Timelines]
    /\ snapshot = Pending
    /\ helper = "running"
    /\ items = <<>>

\* The stream has returned None.
Ended == items # <<>> /\ items[Len(items)] = "End"

\* subscribe_now_playing_info maps one line: an error item when it does not
\* deserialize, else the info, which mac.rs turns into Option<Media>.
MacLine ==
    /\ observation.os = "mac"
    /\ snapshot = Pending
    /\ ~Ended
    /\ snapshot' = IF Deserialize(observation.line) THEN IntoMedia(observation.line) ELSE Failed
    /\ items' = Append(items, snapshot'.kind)
    /\ UNCHANGED <<observation, helper>>
    /\ UNCHANGED xMedia

\* Media::from_windows on the session's timeline; a failing WinRT call (no
\* thumbnail, say) returns the error.
WinUpdate(ok) ==
    /\ observation.os = "win"
    /\ snapshot = Pending
    /\ snapshot' = IF ok THEN FromWindows(observation.tl) ELSE Failed
    /\ UNCHANGED <<observation, helper, items>>
    /\ UNCHANGED xMedia

\* The helper process exits (it crashed or was killed); what it wrote
\* before stays readable in the pipe.
HelperExits ==
    /\ observation.os = "mac"
    /\ helper = "running"
    /\ helper' = "exited"
    /\ UNCHANGED <<observation, snapshot, items>>
    /\ UNCHANGED xMedia

\* The helper's stdout is at its end: Lines yields None and so does the
\* mapped stream (lines 70-78); nothing looks at the child's exit status.
LinesEnd ==
    /\ observation.os = "mac"
    /\ helper = "exited"
    /\ ~Ended
    /\ items' = Append(items, "End")
    /\ UNCHANGED <<observation, snapshot, helper>>
    /\ UNCHANGED xMedia

NextMedia ==
    \/ MacLine
    \/ HelperExits
    \/ LinesEnd
    \/ \E ok \in BOOLEAN : WinUpdate(ok)

\* The variables of this part while another part runs.
IdleMedia ==
    /\ observation = [os |-> "mac", line |-> NoLine, tl |-> NoTimeline]
    /\ snapshot = Pending
    /\ helper = "running"
    /\ items = <<>>

-----------------------------------------------------------------------------
(* The dispatch loop of one connection, packet by packet (Connection::run, *)
(* lines 183-221): what the pipe delivers is decoded by the codec, what    *)
(* the loop writes is kept in order.                                       *)

\* How many packets the loop writes at most.
MaxWrites == 3

\* "nonce"
KeyNonce == <<110, 111, 110, 99, 101>>

\* A Ulid in JSON is a string; the nonce n is the string of its digit.
UlidValue(n) == JStr(<<Ch.zero + n>>)

\* from_value::<Ulid>: a string that is a Ulid, or an error.
FromValueUlid(v) ==
    IF v.t = "str" /\ Len(v.s) = 1 /\ v.s[1] \in Ch.zero..Ch.nine
    THEN [ok |-> TRUE, n |-> v.s[1] - Ch.zero]
    ELSE [ok |-> FALSE, n |-> 0]

\* Value::get(key): the member of an object, None for a value that is no
\* object or has no such member.
ValueGet(v, key) ==
    IF v.t = "obj" /\ \E i \in 1..Len(v.m) : v.m[i].k = key
    THEN [some |-> TRUE, v |-> v.m[CHOOSE i \in 1..Len(v.m) : v.m[i].k = key].v]
    ELSE [some |-> FALSE, v |-> JNull]

\* to_value(cmd) of a Command, reduced to its nonce member.
CommandValue(n) == JObj(<<Member(KeyNonce, UlidValue(n))>>)

\* The packets a peer may send: pings with two bodies, the packets the loop
\* ignores, a close, and frames whose body carries a nonce (0: the nonce of
\* no command), a null nonce, a number for a nonce, no nonce, or is no object.
PeerPackets ==
    { RpcPacket("Ping", JNum(10)), RpcPacket("Ping", ExampleBody),
      RpcPacket("Pong", JNull), RpcPacket("Handshake", JObj(<<Member(KeyV, JNum(1))>>)),
      RpcPacket("Close", JNull),
      RpcPacket("Frame", JObj(<<Member(KeyNonce, JNull)>>)),
      RpcPacket("Frame", JObj(<<Member(KeyNonce, JNum(1))>>)),
      RpcPacket("Frame", ExampleBody),
      RpcPacket("Frame", JNum(10)) }
    \cup { RpcPacket("Frame", CommandValue(n)) : n \in 0..MaxNonce }

\* The frames the pipe may deliver: those of the packets above, a frame with
\* the op code 5 and a Frame whose body is the text `{`.
PeerFrames ==
    { Encode(p, <<>>) : p \in PeerPackets }
    \cup { I32LE(5) \o I32LE(4) \o LitNull,
           I32LE(1) \o I32LE(1) \o <<Ch.lbrace>> }

\* framed.next() on each of them: what decode returns on the whole frame.
Inbound == { Decode(f).res : f \in PeerFrames }

\* What select! yielded (k: "none" before the first iteration, "Command", or
\* decode's "Some" / "Err", or "End" for the end of the stream), the packet,
\* and whether the iteration's write succeeded ("none": it wrote nothing).
Selected(k, pkt, sent) == [k |-> k, pkt |-> pkt, sent |-> sent]

\* The reply to a ping without its body.
PongFor_Empty(pkt) == RpcPacket("Pong", JNull)

\* The reply to a ping: Pong with packet.data.
PongFor(pkt) == RpcPacket("Pong", pkt.data)

\* run has sent Open and built an empty `expected`; Connection.rx holds what
\* earlier attempts left, the channel what was enqueued meanwhile.
InitLoopVars ==
    /\ loop_pc = "loop"
    /\ loop_queue = <<>>
    /\ loop_expected = {}
    /\ loop_rx = {}
    /\ socket = <<>>
    /\ selected = Selected("none", NoPacket, "none")
    /\ delivered = [n \in Nonces |-> 0]

\* A holder of the connection's tx (send_all) enqueues a command with a new
\* nonce.
LoopEnqueue(n) ==
    /\ loop_pc \in {"loop", "failed"}
    /\ Len(loop_queue) < QueueCap
    /\ n \notin loop_rx
    /\ \A i \in 1..Len(loop_queue) : loop_queue[i] # n
    /\ loop_queue' = Append(loop_queue, n)
    /\ UNCHANGED <<loop_pc, loop_expected, loop_rx, socket, selected, delivered>>
    /\ UNCHANGED xLoop

\* select! yields a command (lines 189-195): both maps get the nonce, the
\* Frame is written (ok) or the write fails and run returns the error.
LoopCommand(ok) ==
    /\ loop_pc = "loop"
    /\ loop_queue # <<>>
    /\ Len(socket) < MaxWrites
    /\ LET p == QueuePop(loop_queue)
           pkt == RpcPacket("Frame", CommandValue(p.cmd))
       IN  /\ loop_queue' = p.rest
           /\ loop_rx' = loop_rx \cup {p.cmd}
           /\ IF ok
              THEN /\ loop_expected' = loop_expected \cup {p.cmd}
                   /\ socket' = Append(socket, pkt)
                   /\ loop_pc' = "loop"
                   /\ selected' = Selected("Command", pkt, "ok")
              ELSE /\ loop_expected' = {}
                   /\ socket' = socket
                   /\ loop_pc' = "failed"
                   /\ selected' = Selected("Command", pkt, "err")
    /\ UNCHANGED delivered
    /\ UNCHANGED xLoop

\* select! yields framed.next() = Some(Err): `v.transpose()?` returns it.
LoopDecodeError(r) ==
    /\ loop_pc = "loop"
    /\ r.k = "Err"
    /\ loop_pc' = "failed"
    /\ loop_expected' = {}
    /\ selected' = Selected("Err", NoPacket, "none")
    /\ UNCHANGED <<loop_queue, loop_rx, socket, delivered>>
    /\ UNCHANGED xLoop

\* framed.next() yields None: `break`, run returns Ok(()).
LoopStreamEnd ==
    /\ loop_pc = "loop"
    /\ loop_pc' = "exited"
    /\ loop_expected' = {}
    /\ selected' = Selected("End", NoPacket, "none")
    /\ UNCHANGED <<loop_queue, loop_rx, socket, delivered>>
    /\ UNCHANGED xLoop

\* Op::Ping (lines 203-210): the Pong is written at once, or the write fails.
LoopPingPacket(r, ok) ==
    /\ loop_pc = "loop"
    /\ r.k = "Some" /\ r.pkt.op = "Ping"
    /\ Len(socket) < MaxWrites
    /\ IF ok
       THEN /\ socket' = Append(socket, PongFor(r.pkt))
            /\ selected' = Selected("Some", r.pkt, "ok")
            /\ UNCHANGED <<loop_pc, loop_expected>>
       ELSE /\ socket' = socket
            /\ selected' = Selected("Some", r.pkt, "err")
            /\ loop_pc' = "failed"
            /\ loop_expected' = {}
    /\ UNCHANGED <<loop_queue, loop_rx, delivered>>
    /\ UNCHANGED xLoop

\* Op::Close (line 211): `break`.
LoopClosePacket(r) ==
    /\ loop_pc = "loop"
    /\ r.k = "Some" /\ r.pkt.op = "Close"
    /\ loop_pc' = "exited"
    /\ loop_expected' = {}
    /\ selected' = Selected("Some", r.pkt, "none")
    /\ UNCHANGED <<loop_queue, loop_rx, socket, delivered>>
    /\ UNCHANGED xLoop

\* Op::Frame (lines 212-218): `.get("nonce").unwrap()` panics without the
\* member, from_value::<Ulid> fails on what is no Ulid, and the responder
\* found under the nonce is removed from `expected` and sent the packet.
LoopFramePacket(r) ==
    /\ loop_pc = "loop"
    /\ r.k = "Some" /\ r.pkt.op = "Frame"
    /\ selected' = Selected("Some", r.pkt, "none")
    /\ LET member == ValueGet(r.pkt.data, KeyNonce)
           nonce == FromValueUlid(member.v)
       IN  IF ~member.some
           THEN /\ loop_pc' = "panicked"
                /\ loop_expected' = {}
                /\ UNCHANGED delivered
           ELSE IF ~nonce.ok
           THEN /\ loop_pc' = "failed"
                /\ loop_expected' = {}
                /\ UNCHANGED delivered
           ELSE /\ loop_pc' = "loop"
                /\ loop_expected' = loop_expected \ {nonce.n}
                /\ delivered' = IF nonce.n \in loop_expected
                                THEN [delivered EXCEPT ![nonce.n] = @ + 1]
                                ELSE delivered
    /\ UNCHANGED <<loop_queue, loop_rx, socket>>
    /\ UNCHANGED xLoop

\* Any other op (line 219): nothing.
LoopOtherPacket(r) ==
    /\ loop_pc = "loop"
    /\ r.k = "Some" /\ r.pkt.op \in {"Handshake", "Pong"}
    /\ selected' = Selected("Some", r.pkt, "none")
    /\ UNCHANGED <<loop_pc, loop_queue, loop_expected, loop_rx, socket, delivered>>
    /\ UNCHANGED xLoop

NextLoop ==
    \/ \E n \in Nonces : LoopEnqueue(n)
    \/ \E ok \in BOOLEAN : LoopCommand(ok)
    \/ \E r \in Inbound : LoopDecodeError(r)
    \/ LoopStreamEnd
    \/ \E r \in Inbound, ok \in BOOLEAN : LoopPingPacket(r, ok)
    \/ \E r \in Inbound : LoopClosePacket(r)
    \/ \E r \in Inbound : LoopFramePacket(r)
    \/ \E r \in Inbound : LoopOtherPacket(r)

\* The variables of this part while another part runs.
IdleLoop == InitLoopVars

-----------------------------------------------------------------------------
(* The retry schedule of one slot: RetryIf::spawn over                     *)
(* ExponentialBackoff::from_millis(10).max_delay(60 s) (Connection::new,   *)
(* lines 132-155).  Times are in milliseconds.                             *)

\* How many retries the model follows.
MaxRetries == 7

\* ExponentialBackoff::from_millis(10): base and first delay.
BackoffBase == 10

\* max_delay(Duration::from_secs(60))
MaxDelay == 60000

\* The strategy's next(): the delay is `current` (factor 1); above max_delay
\* it returns max_delay and leaves `current`; else `current` is multiplied
\* by the base.
BackoffNext(cur) ==
    IF cur > MaxDelay THEN [delay |-> MaxDelay, current |-> cur]
    ELSE [delay |-> cur, current |-> cur * BackoffBase]

\* Connection::new: the strategy is built once, with the task.
InitRetryVars ==
    /\ attempt = "running"
    /\ current = BackoffBase
    /\ delays = <<>>

\* run sent Open and is in its loop.
AttemptOpens ==
    /\ attempt = "running"
    /\ attempt' = "open"
    /\ UNCHANGED <<current, delays>>
    /\ UNCHANGED xRetry

\* run returned Err(err), before or after Open: the condition ends the task
\* on NotFound; else RetryIf sleeps the strategy's next delay.
AttemptFails(err) ==
    /\ attempt \in {"running", "open"}
    /\ IF RetryCondition(err)
       THEN /\ Len(delays) < MaxRetries
            /\ LET nx == BackoffNext(current) IN
                /\ delays' = Append(delays, [ms |-> nx.delay, wasOpen |-> attempt = "open"])
                /\ current' = nx.current
            /\ attempt' = "sleeping"
       ELSE /\ attempt' = "dead"
            /\ UNCHANGED <<current, delays>>
    /\ UNCHANGED xRetry

\* The delay is over: the closure calls run again.
SleepOver ==
    /\ attempt = "sleeping"
    /\ attempt' = "running"
    /\ UNCHANGED <<current, delays>>
    /\ UNCHANGED xRetry

\* run returned Ok(()) (Close, or the end of the stream): RetryIf is done.
AttemptReturnsOk ==
    /\ attempt = "open"
    /\ attempt' = "exited"
    /\ UNCHANGED <<current, delays>>
    /\ UNCHANGED xRetry

\* run panicked (a Frame without nonce): the task is over.
AttemptPanics ==
    /\ attempt = "open"
    /\ attempt' = "panicked"
    /\ UNCHANGED <<current, delays>>
    /\ UNCHANGED xRetry

NextRetry ==
    \/ AttemptOpens
    \/ \E err \in {"NotFound", "Other"} : AttemptFails(err)
    \/ SleepOver
    \/ AttemptReturnsOk
    \/ AttemptPanics

\* The variables of this part while another part runs.
IdleRetry == InitRetryVars

-----------------------------------------------------------------------------
(* encode on bodies of any length (RpcCodec::encode, codec.rs 91-104).     *)
(* A length (usize, 64 bits) is its eight bytes, lowest first; the body    *)
(* itself is not built, only counted.                                      *)

\* The lengths encode is driven on: around 2^8, 2^31 and 2^32.
BodyLengths ==
    { <<b0, 0, 0, b3, b4, 0, 0, 0>> : b0 \in {0, 15, 255}, b3 \in {0, 127, 128, 255}, b4 \in {0, 1} }

\* `buf.len() as i32`, as the four bytes write_i32::<LittleEndian> writes:
\* the cast keeps the low 32 bits.
LenAsI32(len) == SubSeq(len, 1, 4)

\* encode on a body of that length: the value returned, the header appended
\* to buf and the length of the body appended after it.
EncodeSized(op, len, buf) ==
    [ret |-> "Ok", dst |-> buf \o I32LE(OpCode(op)) \o LenAsI32(len), body |-> len]

NotEmitted == [ret |-> "pending", dst |-> <<>>, body |-> <<0, 0, 0, 0, 0, 0, 0, 0>>]

InitSizeVars ==
    /\ sized \in [op : Ops, len : BodyLengths, buf : DstPrefixes]
    /\ emitted = NotEmitted

\* Encoder::encode(item, dst) for an item whose body has the length sized.len.
EncodeSizedItem ==
    /\ emitted = NotEmitted
    /\ emitted' = EncodeSized(sized.op, sized.len, sized.buf)
    /\ UNCHANGED sized
    /\ UNCHANGED xSize

NextSize == EncodeSizedItem

\* The variables of this part while another part runs.
IdleSize ==
    /\ sized = [op |-> "Frame", len |-> <<0, 0, 0, 0, 0, 0, 0, 0>>, buf |-> <<>>]
    /\ emitted = NotEmitted

-----------------------------------------------------------------------------
(* Media changes, get_media and set_activity together (commands/media.rs,  *)
(* commands/rpc.rs, api.rs): the subscription task and get_media write the *)
(* local server's register; set_activity, called by the frontend with the  *)
(* media it received, uploads the artwork to the remote API and broadcasts *)
(* an activity whose large_image names the hash.                           *)

\* Option<Media>::None: nothing is playing.
NoMedia == [mime |-> "none", bytes |-> <<>>, hash |-> <<>>]

\* A Media as the adaptors build it: artwork_hash is the BLAKE3 hash of the
\* artwork's bytes in lower-case hexadecimal text.
MediaOf(mime, bytes) ==
    [mime |-> mime, bytes |-> bytes, hash |-> HexText(Blake3(bytes), FALSE)]

Medias == { MediaOf(m, b) : m \in Mimes, b \in Images }

\* Api.base_url, the remote API's address the application is built with.
BaseUrl == "https://api"

\* No activity has been broadcast yet.
NoActivity == [kind |-> "none", base |-> "", hash |-> <<>>]

\* Rpc::clear_activity: SET_ACTIVITY without an activity.
Cleared == [kind |-> "clear", base |-> "", hash |-> <<>>]

\* The activity set_activity builds: large_image is
\* format!("{}/{}", api.base_url, media.artwork_hash).
ActivityOf(media) == [kind |-> "set", base |-> BaseUrl, hash |-> media.hash]

\* The record Server::set_artwork puts into the register.
ArtworkOf(media) ==
    [bytes |-> media.bytes, mime |-> media.mime, hash |-> Blake3(media.bytes)]

InitOrchVars ==
    /\ known = NoMedia
    /\ has_rpc = FALSE
    /\ command = [pc |-> "idle", media |-> NoMedia]
    /\ remote = {}
    /\ activity = NoActivity

\* The subscription task of subscribe_media receives a media change: for
\* Some(properties) the server's register is replaced, and in either case
\* "media_change" is emitted to the frontend.
MediaChange(properties) ==
    /\ current_artwork' =
          IF properties = NoMedia THEN current_artwork ELSE ArtworkOf(properties)
    /\ known' = properties
    /\ UNCHANGED <<has_rpc, command, remote, activity>>
    /\ UNCHANGED <<request, response, public_url, tunnel, callers>>
    /\ UNCHANGED xOrch

\* get_media: media::get's answer replaces the register when it is Some, and
\* is returned to the frontend.
GetMedia(properties) ==
    /\ current_artwork' =
          IF properties = NoMedia THEN current_artwork ELSE ArtworkOf(properties)
    /\ known' = properties
    /\ UNCHANGED <<has_rpc, command, remote, activity>>
    /\ UNCHANGED <<request, response, public_url, tunnel, callers>>
    /\ UNCHANGED xOrch

\* connect(Some(client_id)) puts a pool into the managed state, connect(None)
\* takes it out; either waits for the lock set_activity holds.
OrchConnect(some) ==
    /\ command.pc = "idle"
    /\ has_rpc' = some
    /\ UNCHANGED <<known, command, remote, activity>>
    /\ UNCHANGED svars
    /\ UNCHANGED xOrch

\* set_activity(media), called by the frontend with the media it received
\* last or with null: the lock is taken; without a pool the command returns
\* an error; for None clear_activity is broadcast; for Some(media)
\* api.set_artwork is awaited.
OrchSetActivity(media) ==
    /\ command.pc = "idle"
    /\ media \in {known, NoMedia}
    /\ IF ~has_rpc
       THEN UNCHANGED <<command, activity>>
       ELSE IF media = NoMedia
       THEN /\ activity' = Cleared
            /\ UNCHANGED command
       ELSE /\ command' = [pc |-> "artwork", media |-> media]
            /\ UNCHANGED activity
    /\ UNCHANGED <<known, has_rpc, remote>>
    /\ UNCHANGED svars
    /\ UNCHANGED xOrch

\* api.set_artwork returned Ok: the bytes are stored at the remote API under
\* their hash (PUT {base_url}/{hash}), and Rpc::set_activity broadcasts the
\* activity.  The server's register is not touched.
ApiSetArtworkOk ==
    /\ command.pc = "artwork"
    /\ remote' = remote \cup {Blake3(command.media.bytes)}
    /\ activity' = ActivityOf(command.media)
    /\ command' = [pc |-> "idle", media |-> NoMedia]
    /\ UNCHANGED <<known, has_rpc>>
    /\ UNCHANGED svars
    /\ UNCHANGED xOrch

\* api.set_artwork returned Err: `?` returns it, nothing is broadcast.
ApiSetArtworkErr ==
    /\ command.pc = "artwork"
    /\ command' = [pc |-> "idle", media |-> NoMedia]
    /\ UNCHANGED <<known, has_rpc, remote, activity>>
    /\ UNCHANGED svars
    /\ UNCHANGED xOrch

\* A GET at the local server for the hash the current activity names.
GetActivityImage ==
    /\ activity.kind = "set"
    /\ HandleRequest(activity.hash)

NextOrch ==
    \/ \E properties \in Medias \cup {NoMedia} : MediaChange(properties)
    \/ \E properties \in Medias \cup {NoMedia} : GetMedia(properties)
    \/ \E some \in BOOLEAN : OrchConnect(some)
    \/ \E media \in Medias \cup {NoMedia} : OrchSetActivity(media)
    \/ ApiSetArtworkOk
    \/ ApiSetArtworkErr
    \/ GetActivityImage

\* The variables of this part while another part runs.
IdleOrch == InitOrchVars

-----------------------------------------------------------------------------
(* The specifications.                                                     *)

\* The parts that do not run under the codec's or the slots' specification.
IdleX == IdleAuth /\ IdleShell /\ IdleServe /\ IdleMedia /\ IdleLoop /\ IdleRetry /\ IdleSize /\ IdleOrch

\* Rpc::new: ten times Connection::new, each with an empty channel, the watch
\* channel at Opening, empty maps and a spawned supervisor; the store holds
\* what earlier runs of the program left.
InitRpcVars ==
    /\ status = [s \in Slots |-> "Opening"]
    /\ pc = [s \in Slots |-> "spawned"]
    /\ lastErr = [s \in Slots |-> "none"]
    /\ queue = [s \in Slots |-> <<>>]
    /\ expected = [s \in Slots |-> {}]
    /\ rx = [s \in Slots |-> {}]
    /\ token \in [Slots -> Tokens]
    /\ nextNonce = 0
    /\ accepted = [s \in Slots |-> <<>>]
    /\ written = [s \in Slots |-> <<>>]
    /\ bc = [pc |-> "idle", i |-> 0, cmd |-> NoCommand]
    /\ found = [s \in Slots |-> "none"]

Supervisor(s) ==
    \/ RunStart(s)
    \/ PipeBusy(s)
    \/ PipeOpened(s)
    \/ \E err \in {"NotFound", "Other"} : PipeFailed(s, err)
    \/ HandshakeSent(s)
    \/ HandshakeFailed(s)
    \/ ReadyDiscarded(s)
    \/ AuthStoreFailed(s)
    \/ Authorize(s)
    \/ RefreshFailed(s)
    \/ RefreshGranted(s)
    \/ \E t \in {"soon", "fresh"} : RefreshedOpen(s, t)
    \/ AuthAsIs(s)
    \/ LoopCommandWritten(s)
    \/ LoopCommandWriteFailed(s)
    \/ LoopReadFailed(s)
    \/ LoopPing(s)
    \/ LoopPongFailed(s)
    \/ LoopClosed(s)
    \/ \E n \in 0..MaxNonce : LoopFrame(s, n)
    \/ LoopFrameBadNonce(s)
    \/ LoopFrameNoNonce(s)
    \/ LoopIgnored(s)

Broadcast ==
    \/ RpcSetActivity
    \/ RpcClearActivity
    \/ FilterReturns
    \/ SendAccepted
    \/ SendFailed

NextRpc ==
    \/ \E s \in Slots : Supervisor(s)
    \/ Broadcast

\* The codec variables while the slots run: one packet, nothing encoded.
IdleCodec ==
    /\ item = RpcPacket("Handshake", JNull)
    /\ dst = <<>>
    /\ encoded = FALSE
    /\ src = <<>>
    /\ fed = 0
    /\ results = <<>>

Init == InitRpcVars /\ IdleCodec /\ IdleX

Spec == Init /\ [][NextRpc]_vars

\* The same with the scheduler's fairness: a send_all that can go on does, a
\* loop with a command in its channel takes it, a delay that is over ends.
\* Nothing obliges the pipe or the peer to answer or to fail.
SpecFair ==
    /\ Init /\ [][NextRpc]_vars
    /\ WF_vars(Broadcast)
    /\ \A s \in Slots : WF_vars(LoopCommandWritten(s)) /\ WF_vars(RunStart(s))

\* The slots while the codec runs: the pool as built, an empty store.
IdleRpc == InitRpcVars /\ token = [s \in Slots |-> "none"]

InitCodec == InitCodecVars /\ IdleRpc /\ IdleX

SpecCodec == InitCodec /\ [][NextCodec]_vars

InitAuth == InitAuthVars /\ IdleCodec /\ IdleRpc /\ IdleShell /\ IdleServe /\ IdleMedia /\ IdleLoop /\ IdleRetry /\ IdleSize /\ IdleOrch

SpecAuth == InitAuth /\ [][NextAuth]_vars

InitShell == InitShellVars /\ IdleCodec /\ IdleRpc /\ IdleAuth /\ IdleServe /\ IdleMedia /\ IdleLoop /\ IdleRetry /\ IdleSize /\ IdleOrch

\* The runtime keeps polling its tasks: some step is taken while one can be.
SpecShell == InitShell /\ [][NextShell]_vars /\ WF_vars(NextShell)

InitServe == InitServeVars /\ IdleCodec /\ IdleRpc /\ IdleAuth /\ IdleShell /\ IdleMedia /\ IdleLoop /\ IdleRetry /\ IdleSize /\ IdleOrch

InitMedia == InitMediaVars /\ IdleCodec /\ IdleRpc /\ IdleAuth /\ IdleShell /\ IdleServe /\ IdleLoop /\ IdleRetry /\ IdleSize /\ IdleOrch

SpecMedia == InitMedia /\ [][NextMedia]_vars

InitLoop == InitLoopVars /\ IdleCodec /\ IdleRpc /\ IdleAuth /\ IdleShell /\ IdleServe /\ IdleMedia /\ IdleRetry /\ IdleSize /\ IdleOrch

SpecLoop == InitLoop /\ [][NextLoop]_vars

InitRetry == InitRetryVars /\ IdleCodec /\ IdleRpc /\ IdleAuth /\ IdleShell /\ IdleServe /\ IdleMedia /\ IdleLoop /\ IdleSize /\ IdleOrch

SpecRetry == InitRetry /\ [][NextRetry]_vars

InitSize == InitSizeVars /\ IdleCodec /\ IdleRpc /\ IdleAuth /\ IdleShell /\ IdleServe /\ IdleMedia /\ IdleLoop /\ IdleRetry /\ IdleOrch

SpecSize == InitSize /\ [][NextSize]_vars

InitOrch == InitOrchVars /\ IdleCodec /\ IdleRpc /\ IdleAuth /\ IdleShell /\ IdleServe /\ IdleMedia /\ IdleLoop /\ IdleRetry /\ IdleSize

SpecOrch == InitOrch /\ [][NextOrch]_vars

\* The steps of one public_url() call.
CallerStep(c) == CallerChecks(c) \/ CallerWaits(c) \/ CallerReturns(c)

\* The runtime keeps polling its tasks: the tunnel task gets to notify after
\* it has set the URL, and every caller that can take a step takes it.
SpecServe ==
    /\ InitServe
    /\ [][NextServe]_vars
    /\ WF_vars(TunnelNotifies)
    /\ \A c \in Callers : WF_vars(CallerStep(c))

-----------------------------------------------------------------------------
(* Claims about the codec (checked under SpecCodec).                       *)

SomePacket(p) == [k |-> "Some", pkt |-> p]
NonePacket    == [k |-> "None", pkt |-> NoPacket]

\* The text {"a":1,"b":"x"}, byte by byte.
ExampleText == <<123, 34, 97, 34, 58, 49, 44, 34, 98, 34, 58, 34, 120, 34, 125>>

\* C1: a frame delivered in pieces yields None on every decode call before
\* the last byte has arrived, and Some(original packet) on the call that sees
\* the last byte.
C1_IncrementalDecode ==
    encoded =>
      \A i \in 1..Len(results) :
        results[i] = IF i = Len(results) /\ fed = Len(Frame)
                     THEN SomePacket(item) ELSE NonePacket

\* C2: one decode call on the complete output of encode returns the packet
\* with the same op and the same body and leaves the buffer empty.
C2_RoundTrip ==
    (encoded /\ Len(results) = 1 /\ fed = Len(Frame)) =>
        /\ results[1].k = "Some"
        /\ results[1].pkt.op = item.op
        /\ results[1].pkt.data = item.data
        /\ src = <<>>

C2_Witness ==
    /\ encoded /\ Len(results) = 1 /\ fed = Len(Frame)
    /\ item = RpcPacket("Ping", ExampleBody)
    /\ results[1] = SomePacket(item)

\* The layout of what encode appended: op word, length word, body, and
\* nothing else, after what the buffer held before.
EncodeLayout ==
    LET body == ToVec(item.data)
        k    == Len(dst) - 8 - Len(body)
    IN  /\ k >= 0
        /\ SubSeq(dst, 1, k) \in DstPrefixes
        /\ SubSeq(dst, k + 1, k + 4) = <<OpCode(item.op), 0, 0, 0>>
        /\ SubSeq(dst, k + 5, k + 8) = <<Len(body), 0, 0, 0>>
        /\ SubSeq(dst, k + 9, Len(dst)) = body

\* What encode appended for {op: Frame, data: {"a":1,"b":"x"}} when the
\* length word is lenByte 00 00 00.
ExampleOutput(lenByte) ==
    item = RpcPacket("Frame", ExampleBody) =>
        \E pre \in DstPrefixes :
            dst = pre \o <<1, 0, 0, 0>> \o <<lenByte, 0, 0, 0>> \o ExampleText

\* C3 as stated: op word, length word, body; the example's length word
\* is 0D 00 00 00.
C3_Original == encoded => (EncodeLayout /\ ExampleOutput(13))

\* C3 amended: op word, length word, body; the example's body has 15 bytes,
\* so its length word is 0F 00 00 00.
C3_EncodeBytes == encoded => (EncodeLayout /\ ExampleOutput(15))

C3_Witness == encoded /\ item = RpcPacket("Frame", ExampleBody) /\ Len(dst) = 24

-----------------------------------------------------------------------------
(* Claims about the slots and the broadcast (checked under Spec).          *)

\* p is q with some elements left out.
RECURSIVE IsSubseq(_, _)
IsSubseq(p, q) ==
    IF p = <<>> THEN TRUE
    ELSE IF q = <<>> THEN FALSE
    ELSE IF p[1] = q[1] THEN IsSubseq(Tail(p), Tail(q))
    ELSE IsSubseq(p, Tail(q))

NoRepeat(p) == \A i, j \in 1..Len(p) : p[i] = p[j] => i = j

QueueNonces(s) == [i \in 1..Len(queue[s]) |-> queue[s][i].nonce]

\* How often the queue of slot s accepted the command of the broadcast.
Enqueued(s) == Cardinality({i \in 1..Len(accepted[s]) : accepted[s][i] = bc.cmd.nonce})

StatusSteps == { <<"Opening", "Open">>, <<"Open", "Opening">>, <<"Opening", "Dead">> }

C5_DeadIsFinal ==
    /\ [](\A s \in Slots : lastErr[s] = "NotFound" => status[s] = "Dead")
    /\ [](\A s \in Slots : status[s] = "Dead" =>
                /\ pc[s] = "dead"
                /\ Closed(s) /\ ~CanSend(s)
                /\ queue[s] = <<>>)
    /\ [][\A s \in Slots : status[s] = "Dead" =>
                /\ status'[s] = "Dead"
                /\ pc'[s] = "dead"
                /\ accepted'[s] = accepted[s]
                /\ written'[s] = written[s]]_vars

\* A broadcast had found the slot Open; the slot then died and the send failed.
C5_Witness ==
    \E s \in Slots :
        /\ status[s] = "Dead" /\ lastErr[s] = "NotFound"
        /\ bc.pc = "err" /\ bc.i = s /\ found[s] = "Open"

\* C6: an error in the dispatch loop (every way out of the loop but Close
\* and the end of the stream) leaves the supervisor in the backoff delay,
\* a retry pending and the slot not Dead.
C6_LoopErrorRetries ==
    [][\A s \in Slots :
          (pc[s] = "loop" /\ pc'[s] \notin {"loop", "exited"})
              => (pc'[s] = "backoff" /\ status'[s] # "Dead")]_vars

\* C7: an inbound Close or the end of the stream does not end the
\* supervisor: no supervisor is ever over by run having returned Ok.
C7_CloseReconnects == \A s \in Slots : pc[s] # "exited"

\* C8: a broadcast that has returned Ok found every slot Open or Dead, its
\* command was accepted once by the queue of every slot found Open and by
\* no queue of a slot found Dead.
C8_BroadcastOk ==
    bc.pc = "ok" =>
        \A s \in Slots :
            /\ found[s] \in {"Open", "Dead"}
            /\ found[s] = "Open" => Enqueued(s) = 1
            /\ found[s] = "Dead" => Enqueued(s) = 0

\* A broadcast has returned Ok with one slot found Dead and one found Open,
\* whose queue still holds the command: nothing was written or answered yet.
C8_Witness ==
    /\ bc.pc = "ok"
    /\ \E s, t \in Slots :
        /\ found[s] = "Open" /\ found[t] = "Dead"
        /\ \E i \in 1..Len(queue[s]) : queue[s][i] = bc.cmd
        /\ \A i \in 1..Len(written[s]) : written[s][i] # bc.cmd.nonce

\* C9: an enqueue that fails on a closed queue is skipped: send_all does
\* not end with the error.
C9_EnqueueFailureSkipped == bc.pc # "err"

\* C10: per slot, the command Frames written, followed by the commands
\* still queued, are in the order in which the queue accepted them, and no
\* command is written twice.
C10_WriteOrder ==
    \A s \in Slots :
        /\ IsSubseq(written[s] \o QueueNonces(s), accepted[s])
        /\ NoRepeat(written[s])

\* Two commands were written by one slot.
C10_Witness == \E s \in Slots : Len(written[s]) >= 2

\* Slot s becomes Open in this step.
BecomesOpen(s) == status[s] # "Open" /\ status'[s] = "Open"

\* C11: where the store holds no token, or an expired one, authorize has its
\* AUTHORIZE answered: the step of authenticate in which the slot's queue
\* accepts AUTHORIZE goes on to the response, it does not end the attempt
\* with an error.
C11_AuthorizeAnswered ==
    [][\A s \in Slots :
          (pc[s] = "auth" /\ accepted'[s] # accepted[s]) => pc'[s] # "backoff"]_vars

\* C12: a slot becomes Open with AUTHENTICATE written and answered: some
\* command was accepted by its queue, and no AUTHENTICATE is still waiting
\* there to be written.
C12_AuthenticateBeforeOpen ==
    [][\A s \in Slots :
          BecomesOpen(s) =>
              /\ accepted'[s] # <<>>
              /\ \A i \in 1..Len(queue'[s]) : queue'[s][i].cmd # "AUTHENTICATE"]_vars

-----------------------------------------------------------------------------
(* Claims about authenticate's choice (checked under SpecAuth).            *)

\* C13: a call of authenticate performs exactly one of: authorize alone, when
\* there is no entry or its expires_at is before the clock; refresh alone,
\* when expires_at is not before the clock but less than a day after it;
\* nothing, when expires_at is a day or more after the clock, and then it
\* returns Ok with the entry as it was.
C13_ExactlyOneCase ==
    ret # "idle" =>
        LET t == seen.tok IN
        /\ did \in {<<"authorize">>, <<"refresh">>, <<>>}
        /\ did = <<"authorize">> <=> (t = NoToken \/ t < seen.n1)
        /\ did = <<"refresh">> <=> (t # NoToken /\ ~(t < seen.n1) /\ t < seen.n2 + Day)
        /\ did = <<>> <=> (t # NoToken /\ ~(t < seen.n1) /\ ~(t < seen.n2 + Day))
        /\ did = <<>> => (ret = "Ok" /\ stored = t)

\* An entry expiring exactly a day after the second clock reading, the
\* clock having advanced between the readings, was used as it is.
C13_Witness ==
    /\ ret = "Ok" /\ did = <<>>
    /\ seen.n1 < seen.n2 /\ seen.tok = seen.n2 + Day

-----------------------------------------------------------------------------
(* Claims about the shell's commands (checked under SpecShell).            *)

\* C14: once a pool is dropped, the supervisors of all its slots come to
\* be over.
C14_DroppedPoolExits ==
    \A g \in Pools : Dropped(g) ~> (\A s \in Slots : ~Running(g, s))

\* C20: a command with an activity is handed to send_all only by the step
\* in which the artwork update returns Ok; a set_activity call that ended
\* without a pool or with a failed artwork update has handed nothing to
\* send_all; a call with media None hands over a command whose args are the
\* pid alone, a call with media one whose args have the activity.
C20_ArtworkFirst ==
    [][/\ broadcasts' # broadcasts =>
            /\ Len(broadcasts') = Len(broadcasts) + 1
            /\ LET c == broadcasts'[Len(broadcasts')] IN
                /\ c.pool = rpcState /\ c.pool # NoPool
                /\ c.args = (IF shell'.media THEN "pid,activity" ELSE "pid")
                /\ shell'.media => (shell.pc = "artwork" /\ shell'.art = "ok")
                /\ ~shell'.media => shell.pc # "artwork"
       /\ (shell'.pc = "err" /\ shell.pc \in {"idle", "ok", "err", "artwork"})
              => broadcasts' = broadcasts
      ]_vars

\* Non-null media: the artwork update succeeded, the command went to
\* send_all, which returned Ok.
C20_Witness ==
    /\ shell.pc = "ok" /\ shell.media /\ shell.art = "ok"
    /\ broadcasts # <<>> /\ broadcasts[Len(broadcasts)].args = "pid,activity"

-----------------------------------------------------------------------------
(* Claims about the artwork server (checked under SpecServe).              *)

\* The register holds a record whose hash is the one the path spells.
Holds(path) ==
    /\ current_artwork # NoArtwork
    /\ ParseHash(path).ok
    /\ ParseHash(path).hash = current_artwork.hash

\* C15: the response to GET /{path} is 200 with the record's MIME type and
\* bytes when the register holds a record whose hash is the requested one,
\* and 404 in every other case (the register is empty, the hash is another,
\* the path is no hash).
C15_ServeIffCurrent ==
    [][<<request, response>>' # <<request, response>> =>
          /\ Holds(request') =>
                /\ response'.status = 200
                /\ response'.mime = current_artwork.mime
                /\ response'.body = current_artwork.bytes
          /\ ~Holds(request') => response' = NotFound404]_vars

\* set_artwork has replaced the record and the hash of another image, which
\* parses, is answered with 404.
C15_Witness ==
    /\ response.status = 404
    /\ current_artwork # NoArtwork
    /\ \E b \in Images : b # current_artwork.bytes /\ request = HexText(Blake3(b), FALSE)

\* C16: once the URL is set, every public_url() call that has been made
\* comes to return.
C16_EventuallyReturns ==
    \A c \in Callers :
        (public_url # NoUrl /\ callers[c] # "idle") ~> (callers[c] = "returned")

-----------------------------------------------------------------------------
(* Claims about the media adaptors (checked under SpecMedia).              *)

MacDone == observation.os = "mac" /\ snapshot # Pending
WinDone == observation.os = "win" /\ snapshot.kind = "Some"

\* C17: for a line of the helper the stream emits None when playing is
\* false or one of artist, elapsedTime, duration, timestamp,
\* artworkMimeType, artworkData is missing, and a snapshot otherwise; never
\* an error item.
C17_NoneIffIncomplete ==
    MacDone =>
        LET incomplete == ~observation.line.playing
                            \/ ~(Optional \subseteq observation.line.present)
        IN  /\ incomplete => snapshot.kind = "None"
            /\ ~incomplete => snapshot.kind = "Some"

\* Seconds since the Unix epoch as a Timestamp.
AtSecs(n) == FromSecs(n).mag

\* The timeline of the example: LastUpdatedTime 133,000,000,000,000,000,
\* Position 600,000,000, StartTime 0, EndTime 1,800,000,000.
ExampleTimeline ==
    [LastUpdatedTime |-> <<0, 0, 133000, 0>>, Position |-> 600000000,
     StartTime |-> 0, EndTime |-> 1800000000]

\* start = LastUpdatedTime - Position + StartTime and
\* end = start + (EndTime - StartTime), in nanoseconds since the Unix epoch:
\* the ticks of LastUpdatedTime divided by 10 are microseconds since 1601,
\* 11,644,473,600 s before the Unix epoch, and a span is its ticks times 100.
WindowsFormula ==
    LET tl == observation.tl
        epoch == BMul(BMul(BMul(UniversalEpochSecs, 1000), 1000), 1000)
        unix == BSub(BMul(BDiv(tl.LastUpdatedTime, 10), 1000), epoch)
        span(t) == BMul(BigOf(t), 100)
    IN  /\ BAdd(snapshot.start, span(tl.Position)) = BAdd(unix, span(tl.StartTime))
        /\ BAdd(snapshot.end, span(tl.StartTime)) = BAdd(snapshot.start, span(tl.EndTime))

\* The example's result: start at the Unix second startSecs, end 180 s later.
ExampleResult(startSecs) ==
    observation.tl = ExampleTimeline =>
        /\ snapshot.start = AtSecs(startSecs)
        /\ snapshot.end = AtSecs(startSecs + 180)

\* C18 as stated: the example's start is the Unix second 1,653,500,740.
C18_Original == WinDone => (WindowsFormula /\ ExampleResult(1653500740))

\* C18: the formula, and for the example start = 2022-06-18T04:26:40Z minus
\* 60 s, the Unix second 1,655,526,340, and end = start + 180 s.
C18_WindowsTimes == WinDone => (WindowsFormula /\ ExampleResult(1655526340))

C18_Witness ==
    /\ WinDone /\ observation.tl = ExampleTimeline
    /\ snapshot.start = AtSecs(1655526340)

\* C27: when the helper has exited and the stream has ended, the item before
\* the end is an error item, and an error item is followed by nothing but
\* the end.
C27_ExitYieldsError ==
    /\ (helper = "exited" /\ Ended) =>
            (Len(items) >= 2 /\ items[Len(items) - 1] = "Err")
    /\ \A i \in 1..Len(items) :
            items[i] = "Err" => (i = Len(items) \/ items[i + 1] = "End")

\* C19: every snapshot an adaptor produces has end >= start.
C19_EndNotBeforeStart == snapshot.kind = "Some" => BLeq(snapshot.start, snapshot.end)

-----------------------------------------------------------------------------
(* Claims about the dispatch loop (checked under SpecLoop).                *)

\* What select! yielded violates the protocol: a frame decode rejects
\* (unknown op code, body that is not JSON) or a Frame whose nonce is
\* missing, null or no Ulid.
ProtocolViolation ==
    \/ selected.k = "Err"
    \/ /\ selected.k = "Some" /\ selected.pkt.op = "Frame"
       /\ \/ ~ValueGet(selected.pkt.data, KeyNonce).some
          \/ ~FromValueUlid(ValueGet(selected.pkt.data, KeyNonce).v).ok

\* C21: a packet that violates the protocol ends the attempt with an error
\* the retry loop takes (the supervisor keeps running); it never ends the
\* supervisor.
C21_ProtocolErrorTransient == ProtocolViolation => loop_pc = "failed"

PingSelected == selected.k = "Some" /\ selected.pkt.op = "Ping"

\* C22: after the iteration that read a Ping the last packet on the pipe is
\* the Pong with the Ping's body and the loop goes on (the slot stays Open);
\* only when that write fails does the attempt end, with the write's error.
C22_PongEchoesPing ==
    PingSelected =>
        IF selected.sent = "ok"
        THEN /\ loop_pc = "loop"
             /\ socket # <<>>
             /\ socket[Len(socket)] = RpcPacket("Pong", selected.pkt.data)
        ELSE selected.sent = "err" /\ loop_pc = "failed"

\* Each write adds one packet and nothing is written but the answer to what
\* select! yielded: a step that reads a Ping appends exactly its Pong.
C22_Witness ==
    /\ PingSelected /\ selected.sent = "ok"
    /\ selected.pkt.data = ExampleBody
    /\ Len(socket) >= 2
    /\ socket[Len(socket) - 1].op = "Frame"

\* C23: once a Frame was delivered to the responder of its nonce, no
\* registration for the nonce remains, in `expected` or in Connection.rx,
\* and it was delivered once.
C23_RegistrationDropped ==
    \A n \in Nonces :
        delivered[n] >= 1 =>
            /\ delivered[n] = 1
            /\ n \notin loop_expected
            /\ n \notin loop_rx

-----------------------------------------------------------------------------
(* Claims about the retry schedule (checked under SpecRetry).              *)

RECURSIVE TenTo(_)
TenTo(k) == IF k = 0 THEN 1 ELSE 10 * TenTo(k - 1)

\* The delay before the k-th retry is min(10^k ms, 60 s), whether or not the
\* slot was Open in between.
DelaysFollowSchedule ==
    \A k \in 1..Len(delays) :
        delays[k].ms = IF TenTo(k) < 60000 THEN TenTo(k) ELSE 60000

\* C24: the k-th retry waits min(10^k ms, 60 s), and the retries go on
\* unless the slot is Dead: a supervisor that has stopped has stopped by
\* the condition's refusal (NotFound).
C24_BackoffSchedule ==
    /\ DelaysFollowSchedule
    /\ attempt \notin {"exited", "panicked"}

-----------------------------------------------------------------------------
(* Claims about encode on long bodies (checked under SpecSize).            *)

\* The length is above 2^31 - 1.
TooLong(len) == len[4] >= 128 \/ \E i \in 5..8 : len[i] # 0

\* The length word of the header encode appended, read as an i32.
LengthField == I32FromLE(SubSeq(emitted.dst, Len(sized.buf) + 5, Len(sized.buf) + 8))

\* C25: for a body longer than 2^31 - 1 bytes encode returns an error and
\* appends nothing; the length word it writes is never negative and never
\* differs from the body's length.
C25_OversizeRejected ==
    emitted # NotEmitted =>
        IF TooLong(sized.len)
        THEN emitted.ret = "Err" /\ emitted.dst = sized.buf
        ELSE /\ emitted.ret = "Ok"
             /\ LengthField >= 0
             /\ I32LE(LengthField) \o <<0, 0, 0, 0>> = sized.len

-----------------------------------------------------------------------------
(* Claims about broadcasts and slots that are not Open (C26 under          *)
(* SpecFair, the others under Spec).                                       *)

\* The broadcast under way has put its command on slot t's channel.
Served(t) == \E i \in 1..Len(accepted[t]) : accepted[t][i] = bc.cmd.nonce

\* C26: while a broadcast is under way, a slot that is Open and in its loop
\* gets the command (or the broadcast ends, or the slot stops being Open),
\* whatever the other slots do.
C26_OpenSlotsServed ==
    \A t \in Slots :
        (~BcIdle /\ status[t] = "Open" /\ pc[t] = "loop")
            ~> (BcIdle \/ Served(t) \/ status[t] # "Open" \/ pc[t] # "loop")

\* C28: a slot whose status is Open has its supervisor in the dispatch loop
\* (not in a delay, not connecting, not over).
C28_OpenMeansLoop == \A s \in Slots : status[s] = "Open" => pc[s] = "loop"

\* C29: when the broadcast's enqueue on a slot completes, the slot's status
\* is Open.
C29_EnqueueOnlyOpen ==
    [][(bc.pc = "send" /\ bc' # bc /\ accepted'[bc.i] # accepted[bc.i])
          => status[bc.i] = "Open"]_vars

\* C30: a supervisor about to enqueue AUTHORIZE (no token, or an expired
\* one) or AUTHENTICATE (after a refresh) on its own channel finds room: the
\* channel is emptied by the dispatch loop of the same task alone, so on a
\* full channel the enqueue would never complete.
C30_NeverBlockedOnOwnQueue ==
    \A s \in Slots :
        ~ /\ Len(queue[s]) = QueueCap
          /\ \/ pc[s] = "refreshed"
             \/ pc[s] = "auth" /\ token[s] \in {"none", "expired"}

-----------------------------------------------------------------------------
(* The artwork behind the current activity.                                *)

\* C31: whenever the activity broadcast last carries a large_image naming
\* the hash h, the server's register holds a record with hash h: a GET for
\* that hash is answered 200 and not 404.
C31_ActivityArtworkServed ==
    activity.kind = "set" => Respond(current_artwork, activity.hash).status = 200

=============================================================================
